---------------------------- MODULE Spec2Model ----------------------------
(***************************************************************************)
(* Streaming action-protocol parser (ResponseProcessor), action execution  *)
(* queue (ActionQueue), path validation (resolveProjectPath) and the       *)
(* generation retry supervisor (generateProjectCode).                      *)
(*                                                                         *)
(* Node.js runs these cooperatively on one thread: a step of the model is  *)
(* the code that runs between two suspension points (await / timer).       *)
(***************************************************************************)
EXTENDS Naturals, Integers, Sequences, FiniteSets, TLC

VARIABLES
    \* ---- ActionQueue (src/src/utils/action-queue.ts) ----
    queue,                 \* QueuedAction[]
    isProcessing,          \* reentrancy flag of startProcessing
    paused,
    pendingCommands,       \* Set<string> of action ids
    commandHistory,        \* CommandResult[]
    queueEmptyResolvers,   \* resolvers of waitUntilComplete promises
    loopPc,                \* where the startProcessing coroutine is suspended
    procs,                 \* commands handed to the process runner, not yet exited
    ticks,                 \* setTimeout(..., 0) batches scheduled by checkIfComplete
    restartTimer,          \* setTimeout(..., 1000) scheduled by the finally block
    waiters,               \* the promises returned by waitUntilComplete
    nextId,                \* ids handed out by generateActionId
    applied,               \* history: ids whose dispatch returned true, in order
    failures,              \* history: failed dispatches per id
    dropped,               \* history: ids removed after exhausting their retries
    \* ---- ResponseProcessor (src/src/utils/project-cleanup.ts) ----
    stream,                \* text the model has still to deliver
    fullResponse,
    chunkBuffer,
    currentFileAction,
    streamingContent,
    enqueued,              \* history: the addAction calls of the parser, in order
    splitSeen,             \* history: a fragment ended inside a start or closing tag
    streamEnded,           \* the chunk loop of streamResponse has ended
    messages,              \* generateCode: the assistant messages of the next request
    \* ---- generateProjectCode (src/src/services/code-generation.ts) ----
    supPc,                 \* where generateProjectCode is suspended or blocked
    retryCount,
    success,
    lintError,
    buildError,
    hasActualLintErrors,
    outstanding,           \* per generateCode call: actions its queue has not finished
    parsedTotal,           \* actions parsed from the model streams so far
    retryPrompt,           \* the last retry prompt pushed on the conversation
    waitHow,               \* how the last waitUntilComplete was released
    streams,               \* history: generateCode calls
    lints,                 \* history: runs of `npm run lint:fix`
    builds,                \* history: runs of `npm run build`
    buildFails,            \* history: failed builds
    lintRun,               \* history: what the last lint run printed
    buildRun,              \* history: what the last build run printed
    atSuccess,             \* history: the run counts when the build succeeded
    modelStream,           \* the deltas of the model stream of the last generateCode call
    \* ---- resolveProjectPath (src/src/utils/path-utils.ts) ----
    relativePath,          \* the path of a CREATE, EDIT or DELETE action
    resolved,              \* what resolveProjectPath did with it
    \* file mutator, one queue per generation
    fsQueue,               \* generation -> the file and TEXT actions it has queued
    fsNext,                \* id of the next action queued
    disk,                  \* file -> whether it exists, and its content
    sink,                  \* the FirestoreLogger: "none", "up" or "down"
    fsLast,                \* history: the last dispatch and its effect
    fsTouched,             \* history: <<generation, file>> written or deleted
    \* ---- /generate and the conversation (src/src/index.ts, claude-client.ts) ----
    project,               \* the stored project entry: "none", "ready" or "removed"
    conversationHistory,   \* project.conversationHistory in storage
    cleanup,               \* req.body.cleanup of the request in progress
    isNewProject,
    existingConversation,  \* generateProjectCode: the history the handler passed
    sessionConversationHistory,
    conversations,         \* the conversations argument of the last generateCode call
    requestMessages,       \* the messages generateCode built from it
    claudeResponse,        \* the response of the last generateCode call
    genPc                  \* where the handler is: "idle", "stream" or "verify"

qvars == <<queue, isProcessing, paused, pendingCommands, commandHistory,
           queueEmptyResolvers, loopPc, procs, ticks, restartTimer, waiters,
           nextId, applied, failures, dropped>>

pvars == <<stream, fullResponse, chunkBuffer, currentFileAction, streamingContent,
           enqueued, splitSeen, streamEnded, messages>>

svars == <<supPc, retryCount, success, lintError, buildError, hasActualLintErrors,
           outstanding, parsedTotal, retryPrompt, waitHow, streams, lints, builds,
           buildFails, lintRun, buildRun, atSuccess, modelStream>>

tvars == <<relativePath, resolved>>

fvars == <<fsQueue, fsNext, disk, sink, fsLast, fsTouched>>

cvars == <<project, conversationHistory, cleanup, isNewProject, existingConversation,
           sessionConversationHistory, conversations, requestMessages,
           claudeResponse, genPc>>
vars == <<qvars, pvars, svars, tvars, fvars, cvars>>

notQueue == <<pvars, svars, tvars, fvars, cvars>>
notParser == <<qvars, svars, tvars, fvars, cvars>>
notSupervisor == <<qvars, pvars, tvars, fvars, cvars>>
notPath == <<qvars, pvars, svars, fvars, cvars>>
notFiles == <<qvars, pvars, svars, tvars, cvars>>

-----------------------------------------------------------------------------
(* Bounds of the model *)
MaxActions == 2
MaxWaiters == 1

(* Program constants *)
QUEUE_MAX_RETRIES == 3

FileTypes == {"CREATE", "EDIT", "DELETE"}
ActionIds == 1..MaxActions
WaiterIds == 1..MaxWaiters

-----------------------------------------------------------------------------
(* Sequence helpers *)
RECURSIVE SeqRemove(_, _)
SeqRemove(s, x) ==
    IF s = <<>> THEN <<>>
    ELSE IF Head(s) = x THEN Tail(s)
    ELSE <<Head(s)>> \o SeqRemove(Tail(s), x)

SeqSet(s) == {s[i] : i \in 1..Len(s)}

-----------------------------------------------------------------------------
(* ResponseProcessor: the streaming action-tag parser.                     *)
(*                                                                         *)
(* Text is a sequence of tokens; a fragment boundary may fall between any  *)
(* two tokens:                                                             *)
(*   "<"  <action type="        "C" "E" "D" "M" "T"  CREATE" ... TEXT"     *)
(*   "p"  (space)path="a.txt"   ">"  >               "/"  </action         *)
(*   "x"  an ordinary character "s"  a whitespace character                *)
(* so a start tag is "<" type ["p"] ">" and the closing tag is "/" ">".    *)

MaxLexemes == 4

TypeTokens == {"C", "E", "D", "M", "T"}

TypeOf(tok) ==
    CASE tok = "C" -> "CREATE"
      [] tok = "E" -> "EDIT"
      [] tok = "D" -> "DELETE"
      [] tok = "M" -> "COMMAND"
      [] tok = "T" -> "TEXT"

NoAction == [type |-> "NONE", path |-> "", content |-> <<>>]

\* String.prototype.substring on 1-based token positions: [from, to)
Substring(s, from, to) == SubSeq(s, from, to - 1)

\* An indexOf that returns the position of the last closing tag.
IndexOfLastCloseMutant(buf, from) ==
    LET found == {i \in from..(Len(buf) - 1) : buf[i] = "/" /\ buf[i + 1] = ">"}
    IN  IF found = {} THEN 0 ELSE CHOOSE i \in found : \A j \in found : j <= i

\* chunkBuffer.indexOf('</action>', from): position of the first closing
\* tag at or after `from`, 0 when there is none.
RECURSIVE IndexOfClose(_, _)
IndexOfClose(buf, from) ==
    IF from + 1 > Len(buf) THEN 0
    ELSE IF buf[from] = "/" /\ buf[from + 1] = ">" THEN from
    ELSE IndexOfClose(buf, from + 1)

RECURSIVE SkipWs(_, _)
SkipWs(buf, i) ==
    IF i <= Len(buf) /\ buf[i] = "s" THEN SkipWs(buf, i + 1) ELSE i

\* actionStartRegex anchored at position i:
\* <action type="(CREATE|EDIT|DELETE|COMMAND|TEXT)"(?:\s+path="([^"]+)")?\s*>
MatchAt(buf, i) ==
    IF i + 1 <= Len(buf) /\ buf[i] = "<" /\ buf[i + 1] \in TypeTokens
    THEN LET j == SkipWs(buf, i + 2)
         IN  IF j <= Len(buf) /\ buf[j] = "p"
             THEN LET k == SkipWs(buf, j + 1)
                  IN  IF k <= Len(buf) /\ buf[k] = ">"
                      THEN [ok |-> TRUE, type |-> TypeOf(buf[i + 1]), path |-> "a.txt",
                            index |-> i, end |-> k]
                      ELSE [ok |-> FALSE]
             ELSE IF j <= Len(buf) /\ buf[j] = ">"
                  THEN [ok |-> TRUE, type |-> TypeOf(buf[i + 1]), path |-> "",
                        index |-> i, end |-> j]
                  ELSE [ok |-> FALSE]
    ELSE [ok |-> FALSE]

\* chunkBuffer.match(actionStartRegex): the leftmost match
RECURSIVE MatchFrom(_, _)
MatchFrom(buf, i) ==
    IF i > Len(buf) THEN [ok |-> FALSE]
    ELSE IF buf[i] = "<" /\ MatchAt(buf, i).ok THEN MatchAt(buf, i)
    ELSE MatchFrom(buf, i + 1)

FirstMatch(buf) == MatchFrom(buf, 1)

\* String.prototype.trim
RECURSIVE TrimLeft(_), TrimRight(_)
TrimLeft(s) == IF s # <<>> /\ Head(s) = "s" THEN TrimLeft(Tail(s)) ELSE s
TrimRight(s) ==
    IF s # <<>> /\ s[Len(s)] = "s" THEN TrimRight(SubSeq(s, 1, Len(s) - 1)) ELSE s
Trim(s) == TrimRight(TrimLeft(s))

PState ==
    [buf |-> chunkBuffer, cur |-> currentFileAction, streaming |-> streamingContent,
     full |-> fullResponse, enq |-> enqueued]

NewParser ==
    [buf |-> <<>>, cur |-> NoAction, streaming |-> <<>>, full |-> <<>>, enq |-> <<>>]

\* An addAction call that is made twice for one closing tag.
EnqueueTwiceMutant(S, type, path, content) ==
    [S EXCEPT !.enq = @ \o <<[type |-> type, path |-> path, content |-> content],
                             [type |-> type, path |-> path, content |-> content]>>]

\* An addAction call that is skipped when the content holds a start tag.
EnqueueSkipsNestedMutant(S, type, path, content) ==
    IF \E i \in 1..Len(content) : content[i] = "<"
    THEN S
    ELSE [S EXCEPT !.enq = Append(@, [type |-> type, path |-> path, content |-> content])]

\* this.actionQueue.addAction(type, path, content)
Enqueue(S, type, path, content) ==
    [S EXCEPT !.enq = Append(@, [type |-> type, path |-> path, content |-> content])]

\* processActionTags that moves the body of an open action out of the buffer
\* fragment by fragment instead of keeping it until the closing tag arrives.
RECURSIVE processActionTagsFlushMutant(_)
processActionTagsFlushMutant(S) ==
    IF S.cur # NoAction
    THEN \* in the middle of collecting an action: look for the closing tag
         LET closingIndex == IndexOfClose(S.buf, 1)
         IN  IF closingIndex # 0
             THEN LET newContent == Substring(S.buf, 1, closingIndex)
                      content == S.cur.content \o newContent
                      S1 == Enqueue(S, S.cur.type, S.cur.path, content)
                  IN  processActionTagsFlushMutant(
                          [S1 EXCEPT !.cur = NoAction, !.streaming = <<>>,
                                     !.buf = Substring(S.buf, closingIndex + 2, Len(S.buf) + 1)])
             ELSE [S EXCEPT !.cur.content = @ \o S.buf, !.buf = <<>>]
    ELSE LET match == FirstMatch(S.buf)
         IN  IF ~match.ok THEN S
             ELSE IF match.type = "TEXT"
             THEN LET textStart == match.end + 1
                      closingIndex == IndexOfClose(S.buf, textStart)
                  IN  IF closingIndex # 0
                      THEN LET textContent == Trim(Substring(S.buf, textStart, closingIndex))
                               S1 == Enqueue(S, "TEXT", "", textContent)
                           IN  processActionTagsFlushMutant(
                                   [S1 EXCEPT !.buf = Substring(S.buf, closingIndex + 2,
                                                                Len(S.buf) + 1)])
                      ELSE S
             ELSE IF match.type = "COMMAND"
             THEN LET commandStart == match.end + 1
                      closingIndex == IndexOfClose(S.buf, commandStart)
                  IN  IF closingIndex # 0
                      THEN LET commandContent ==
                                   Trim(Substring(S.buf, commandStart, closingIndex))
                           IN  processActionTagsFlushMutant(
                                   [S EXCEPT !.cur = [type |-> "COMMAND", path |-> "",
                                                      content |-> commandContent],
                                             !.buf = Substring(S.buf, match.end + 1,
                                                               Len(S.buf) + 1)])
                      ELSE S
             ELSE IF match.type \in {"CREATE", "EDIT", "DELETE"}
                     /\ (match.type # "DELETE" \/ match.path # "")
             THEN processActionTagsFlushMutant(
                      [S EXCEPT !.cur = [type |-> match.type, path |-> match.path,
                                         content |-> <<>>],
                                !.streaming = <<>>,
                                !.buf = Substring(S.buf, match.end + 1, Len(S.buf) + 1)])
             ELSE S

\* processActionTags
RECURSIVE processActionTags(_)
processActionTags(S) ==
    IF S.cur # NoAction
    THEN \* in the middle of collecting an action: look for the closing tag
         LET closingIndex == IndexOfClose(S.buf, 1)
         IN  IF closingIndex # 0
             THEN LET newContent == Substring(S.buf, 1, closingIndex)
                      content == S.cur.content \o newContent
                      S1 == Enqueue(S, S.cur.type, S.cur.path, content)
                  IN  processActionTags(
                          [S1 EXCEPT !.cur = NoAction, !.streaming = <<>>,
                                     !.buf = Substring(S.buf, closingIndex + 2, Len(S.buf) + 1)])
             ELSE S
    ELSE LET match == FirstMatch(S.buf)
         IN  IF ~match.ok THEN S
             ELSE IF match.type = "TEXT"
             THEN LET textStart == match.end + 1
                      closingIndex == IndexOfClose(S.buf, textStart)
                  IN  IF closingIndex # 0
                      THEN LET textContent == Trim(Substring(S.buf, textStart, closingIndex))
                               S1 == Enqueue(S, "TEXT", "", textContent)
                           IN  processActionTags(
                                   [S1 EXCEPT !.buf = Substring(S.buf, closingIndex + 2,
                                                                Len(S.buf) + 1)])
                      ELSE S
             ELSE IF match.type = "COMMAND"
             THEN LET commandStart == match.end + 1
                      closingIndex == IndexOfClose(S.buf, commandStart)
                  IN  IF closingIndex # 0
                      THEN LET commandContent ==
                                   Trim(Substring(S.buf, commandStart, closingIndex))
                           IN  processActionTags(
                                   [S EXCEPT !.cur = [type |-> "COMMAND", path |-> "",
                                                      content |-> commandContent],
                                             !.buf = Substring(S.buf, match.end + 1,
                                                               Len(S.buf) + 1)])
                      ELSE S
             ELSE IF match.type \in {"CREATE", "EDIT", "DELETE"}
                     /\ (match.type # "DELETE" \/ match.path # "")
             THEN processActionTags(
                      [S EXCEPT !.cur = [type |-> match.type, path |-> match.path,
                                         content |-> <<>>],
                                !.streaming = <<>>,
                                !.buf = Substring(S.buf, match.end + 1, Len(S.buf) + 1)])
             ELSE S

\* A processChunk that keeps only the last six tokens of a long buffer.
processChunkTruncatesMutant(S, text) ==
    LET b == S.buf \o text
        S1 == [S EXCEPT !.full = @ \o text,
                        !.buf = IF Len(b) > 6 THEN SubSeq(b, Len(b) - 5, Len(b)) ELSE b]
        S2 == IF S1.cur # NoAction /\ S1.cur.type \in {"CREATE", "EDIT"}
              THEN [S1 EXCEPT !.streaming = @ \o text]
              ELSE S1
    IN  processActionTags(S2)

\* processChunk(text)
processChunk(S, text) ==
    LET S1 == [S EXCEPT !.full = @ \o text, !.buf = @ \o text]
        S2 == IF S1.cur # NoAction /\ S1.cur.type \in {"CREATE", "EDIT"}
              THEN [S1 EXCEPT !.streaming = @ \o text]
              ELSE S1
    IN  processActionTags(S2)

\* The pieces the model's text is made of: a CREATE start tag with a path,
\* a DELETE start tag without one, a COMMAND and a TEXT start tag, the
\* closing tag, and a whitespace character followed by an ordinary one.
Lexemes ==
    { <<"<", "C", "p", ">">>, <<"<", "D", ">">>, <<"<", "M", ">">>, <<"<", "T", ">">>,
      <<"/", ">">>, <<"s", "x">> }

RECURSIVE Flatten(_)
Flatten(ls) == IF ls = <<>> THEN <<>> ELSE Head(ls) \o Flatten(Tail(ls))

Texts == {Flatten(ls) : ls \in UNION {[1..n -> Lexemes] : n \in 0..MaxLexemes}}

InsideTag(tok) == tok \in TypeTokens \cup {"<", "p", "/"}

PInit ==
    /\ stream \in Texts
    /\ fullResponse = <<>>
    /\ chunkBuffer = <<>>
    /\ currentFileAction = NoAction
    /\ streamingContent = <<>>
    /\ enqueued = <<>>
    /\ splitSeen = FALSE
    /\ streamEnded = FALSE
    /\ messages = <<>>

\* No parser in use.
PIdle ==
    /\ stream = <<>>
    /\ fullResponse = <<>>
    /\ chunkBuffer = <<>>
    /\ currentFileAction = NoAction
    /\ streamingContent = <<>>
    /\ enqueued = <<>>
    /\ splitSeen = FALSE
    /\ streamEnded = FALSE
    /\ messages = <<>>

\* The model stream delivers its next fragment, the first n tokens that are
\* left, and streamResponse hands it to processChunk.
Feed(n) ==
    /\ n \in 1..Len(stream)
    /\ LET text == SubSeq(stream, 1, n)
           S == processChunk(PState, text)
       IN  /\ chunkBuffer' = S.buf
           /\ currentFileAction' = S.cur
           /\ streamingContent' = S.streaming
           /\ fullResponse' = S.full
           /\ enqueued' = S.enq
           /\ splitSeen' = (splitSeen \/ (n < Len(stream) /\ InsideTag(text[n])))
    /\ stream' = SubSeq(stream, n + 1, Len(stream))
    /\ UNCHANGED <<streamEnded, messages>>
    /\ UNCHANGED notParser

\* The stream is exhausted: the chunk loop ends and streamResponse goes on
\* with getFullResponse, getResponseStats, saveDebugInfo and
\* getGeneratedFiles, none of which touches the buffer, the open action or
\* the queue.
EndOfStream ==
    /\ stream = <<>>
    /\ ~streamEnded
    /\ streamEnded' = TRUE
    /\ UNCHANGED <<stream, fullResponse, chunkBuffer, currentFileAction,
                   streamingContent, enqueued, splitSeen, messages>>
    /\ UNCHANGED notParser

\* content.replace(/<action type="(CREATE|EDIT|DELETE)"([^>]*)>([\s\S]*?)<\/action>/g, ...)
\* of generateCode, the same expression as filterWithModifiedRegex of the
\* test: from left to right, a CREATE, EDIT or DELETE start (the type, any
\* text without '>', then '>') together with everything up to the first
\* closing tag behind it becomes one placeholder; its path is that of a path
\* attribute among the attributes, '[unknown path]' without one.  Text that
\* starts no such match is copied.
RECURSIVE filterWithModifiedRegex(_)
filterWithModifiedRegex(content) ==
    IF content = <<>> THEN <<>>
    ELSE LET n == Len(content)
             ends == {i \in 3..n : content[i] = ">"}
             g == CHOOSE i \in ends : \A j \in ends : i <= j
             closings == {i \in (g + 1)..(n - 1) :
                             content[i] = "/" /\ content[i + 1] = ">"}
             c == CHOOSE i \in closings : \A j \in closings : i <= j
             path == IF \E i \in 3..(g - 1) : content[i] = "p"
                     THEN "a.txt" ELSE "[unknown path]"
         IN  IF /\ n >= 2 /\ content[1] = "<" /\ content[2] \in {"C", "E", "D"}
                /\ ends # {}
                /\ closings # {}
             THEN <<"<action_placeholder type=" \o TypeOf(content[2])
                        \o " path=" \o path \o ">">>
                      \o filterWithModifiedRegex(Substring(content, c + 2, n + 1))
             ELSE <<Head(content)>> \o filterWithModifiedRegex(Tail(content))

\* generateCode of a follow-up request formats the conversation: the stored
\* assistant response is pushed with its file actions filtered out.
FormatAssistantMessage ==
    /\ streamEnded
    /\ messages = <<>>
    /\ messages' = <<[role |-> "assistant",
                      content |-> filterWithModifiedRegex(fullResponse)]>>
    /\ UNCHANGED <<stream, fullResponse, chunkBuffer, currentFileAction,
                   streamingContent, enqueued, splitSeen, streamEnded>>
    /\ UNCHANGED notParser

MaxTokens == 4 * MaxLexemes

PNext ==
    \/ \E n \in 1..MaxTokens : Feed(n)
    \/ EndOfStream
    \/ FormatAssistantMessage

-----------------------------------------------------------------------------
(* ActionQueue *)

NewQueuedAction(id, type, path) ==
    [id |-> id, type |-> type, path |-> path, processed |-> FALSE, retryCount |-> 0]

QState ==
    [queue |-> queue, isProcessing |-> isProcessing,
     pendingCommands |-> pendingCommands, procs |-> procs, pc |-> loopPc,
     resolvers |-> queueEmptyResolvers, ticks |-> ticks,
     restartTimer |-> restartTimer, applied |-> applied,
     failures |-> failures, dropped |-> dropped]

SetQState(S) ==
    /\ queue' = S.queue
    /\ isProcessing' = S.isProcessing
    /\ pendingCommands' = S.pendingCommands
    /\ procs' = S.procs
    /\ loopPc' = S.pc
    /\ queueEmptyResolvers' = S.resolvers
    /\ ticks' = S.ticks
    /\ restartTimer' = S.restartTimer
    /\ applied' = S.applied
    /\ failures' = S.failures
    /\ dropped' = S.dropped

hasPendingCommands(S) == S.pendingCommands # {}

IsComplete(S) ==
    S.queue = <<>> /\ ~hasPendingCommands(S) /\ ~S.isProcessing

checkIfCompleteIgnoresQueueMutant(S) ==
    IF ~hasPendingCommands(S) /\ ~S.isProcessing /\ S.resolvers # <<>>
    THEN [S EXCEPT !.ticks = Append(@, S.resolvers), !.resolvers = <<>>]
    ELSE S

\* checkIfComplete: when complete, hand every waiting resolver to a
\* setTimeout(..., 0) batch and empty the list.
checkIfComplete(S) ==
    IF IsComplete(S) /\ S.resolvers # <<>>
    THEN [S EXCEPT !.ticks = Append(@, S.resolvers), !.resolvers = <<>>]
    ELSE S

DequeueFromTailMutant(q) == SubSeq(q, 1, Len(q) - 1)

\* queue.shift()
Dequeue(q) == Tail(q)

\* A failed action that is left at the head of the queue.
RequeueAtHeadMutant(q) == q

\* this.queue.push(this.queue.shift()!)
Requeue(q) == Append(Tail(q), Head(q))

\* processAction up to its first await.  A COMMAND is marked pending and
\* handed to the process runner; the other types await the file mutator /
\* the narration sink.
ProcessActionBeginNoAwaitMutant(S, a) ==
    IF a.type = "COMMAND"
    THEN [S EXCEPT !.procs = @ \cup {a.id}, !.pc = "dispatch"]
    ELSE [S EXCEPT !.pc = "dispatch"]

ProcessActionBegin(S, a) ==
    IF a.type = "COMMAND"
    THEN IF hasPendingCommands(S)
         THEN [S EXCEPT !.pc = "deferred"]
         ELSE [S EXCEPT !.pendingCommands = @ \cup {a.id},
                        !.procs = @ \cup {a.id},
                        !.pc = "cmdRun"]
    ELSE [S EXCEPT !.pc = "dispatch"]

\* The retry limit compared one failure too late.
RetryLimitReachedLateMutant(rc) == rc > QUEUE_MAX_RETRIES

\* The retry limit compared one failure too early.
RetryLimitReachedEarlyMutant(rc) == rc + 1 >= QUEUE_MAX_RETRIES

\* `action.retryCount >= this.MAX_RETRIES`
RetryLimitReached(rc) == rc >= QUEUE_MAX_RETRIES

RECURSIVE WhileLoop(_, _), startProcessing(_, _), Finally(_, _)

\* The finally block of startProcessing.
Finally(S, p) ==
    LET S1 == checkIfComplete([S EXCEPT !.isProcessing = FALSE, !.pc = "idle"])
    IN  IF hasPendingCommands(S1)
        THEN [S1 EXCEPT !.restartTimer = @ + 1]
        ELSE IF S1.queue # <<>> /\ ~p
             THEN startProcessing(S1, p)
             ELSE S1

\* The while loop of startProcessing, from its condition to the next await.
WhileLoop(S, p) ==
    IF S.queue # <<>> /\ ~p
    THEN LET a == Head(S.queue)
         IN  IF hasPendingCommands(S)
             THEN [S EXCEPT !.pc = "sleep"]
             ELSE IF RetryLimitReached(a.retryCount)
                  THEN WhileLoop([S EXCEPT !.queue = Dequeue(@),
                                           !.dropped = @ \cup {a.id}], p)
                  ELSE IF ~a.processed
                       THEN ProcessActionBegin(S, a)
                       ELSE IF a.type # "COMMAND" \/ a.id \notin S.pendingCommands
                            THEN WhileLoop([S EXCEPT !.queue = Dequeue(@)], p)
                            ELSE WhileLoop(S, p)
    ELSE Finally(S, p)

startProcessing(S, p) ==
    IF S.isProcessing \/ p
    THEN S
    ELSE IF S.queue = <<>>
         THEN checkIfComplete(S)
         ELSE WhileLoop([S EXCEPT !.isProcessing = TRUE], p)

\* A failed dispatch that forgets to count the retry.
AfterProcessActionNoCountMutant(S, ok, p) ==
    LET a == Head(S.queue)
    IN  IF ok
        THEN WhileLoop([S EXCEPT !.applied = Append(@, a.id), !.queue = Dequeue(@)], p)
        ELSE WhileLoop([S EXCEPT !.failures[a.id] = IF @ < QUEUE_MAX_RETRIES THEN @ + 1 ELSE @,
                                 !.queue = Requeue(@)], p)

\* startProcessing after `await this.processAction(action)` returned
\* `ok` (the value of `success`) for the head of the queue.
AfterProcessAction(S, ok, p) ==
    LET a == Head(S.queue)
    IN  IF ok
        THEN LET S1 == [S EXCEPT !.applied = Append(@, a.id)]
             IN  IF a.type # "COMMAND" \/ a.id \notin S1.pendingCommands
                 THEN WhileLoop([S1 EXCEPT !.queue = Dequeue(@)], p)
                 ELSE WhileLoop([S1 EXCEPT !.queue[1].processed = TRUE], p)
        ELSE LET rc == a.retryCount + 1
                 S1 == [S EXCEPT !.queue[1].retryCount = rc,
                                 !.failures[a.id] = @ + 1]
             IN  IF RetryLimitReached(rc)
                 THEN WhileLoop([S1 EXCEPT !.queue = Dequeue(@),
                                           !.dropped = @ \cup {a.id}], p)
                 ELSE WhileLoop([S1 EXCEPT !.queue = Requeue(@)], p)


-----------------------------------------------------------------------------
(* ActionQueue: the steps between suspension points *)

NoWaiter == [st |-> "none", how |-> "none", drained |-> FALSE, addedSince |-> FALSE]

QInit ==
    /\ queue = <<>>
    /\ isProcessing = FALSE
    /\ paused = FALSE
    /\ pendingCommands = {}
    /\ commandHistory = <<>>
    /\ queueEmptyResolvers = <<>>
    /\ loopPc = "idle"
    /\ procs = {}
    /\ ticks = <<>>
    /\ restartTimer = 0
    /\ waiters = [w \in WaiterIds |-> NoWaiter]
    /\ nextId = 1
    /\ applied = <<>>
    /\ failures = [i \in ActionIds |-> 0]
    /\ dropped = {}

Scheduled == UNION {SeqSet(ticks[i]) : i \in 1..Len(ticks)}

\* An addAction that enters the loop without testing isProcessing.
AddActionStartsLoopMutant(type, path) ==
    /\ nextId <= MaxActions
    /\ LET S0 == [QState EXCEPT !.queue = Append(@, NewQueuedAction(nextId, type, path))]
       IN  SetQState(IF ~paused
                     THEN WhileLoop([S0 EXCEPT !.isProcessing = TRUE], paused)
                     ELSE S0)
    /\ nextId' = nextId + 1
    /\ waiters' = [w \in WaiterIds |->
                     IF w \in Scheduled /\ waiters[w].st = "pending"
                     THEN [waiters[w] EXCEPT !.addedSince = TRUE]
                     ELSE waiters[w]]
    /\ UNCHANGED <<paused, commandHistory>>
    /\ UNCHANGED notQueue

\* addAction(type, path, content)
AddAction(type, path) ==
    /\ nextId <= MaxActions
    /\ LET S0 == [QState EXCEPT !.queue = Append(@, NewQueuedAction(nextId, type, path))]
       IN  SetQState(IF ~isProcessing /\ ~paused
                     THEN startProcessing(S0, paused)
                     ELSE S0)
    /\ nextId' = nextId + 1
    /\ waiters' = [w \in WaiterIds |->
                     IF w \in Scheduled /\ waiters[w].st = "pending"
                     THEN [waiters[w] EXCEPT !.addedSince = TRUE]
                     ELSE waiters[w]]
    /\ UNCHANGED <<paused, commandHistory>>
    /\ UNCHANGED notQueue

\* pause()
Pause ==
    /\ ~paused
    /\ paused' = TRUE
    /\ UNCHANGED <<queue, isProcessing, pendingCommands, commandHistory,
                   queueEmptyResolvers, loopPc, procs, ticks, restartTimer,
                   waiters, nextId, applied, failures, dropped>>
    /\ UNCHANGED notQueue

\* A resume that clears the flag and does not restart the loop.
ResumeFlagOnlyMutant ==
    /\ paused
    /\ paused' = FALSE
    /\ UNCHANGED <<queue, isProcessing, pendingCommands, commandHistory,
                   queueEmptyResolvers, loopPc, procs, ticks, restartTimer,
                   waiters, nextId, applied, failures, dropped>>
    /\ UNCHANGED notQueue

\* resume()
Resume ==
    /\ paused
    /\ paused' = FALSE
    /\ SetQState(IF (queue # <<>> \/ hasPendingCommands(QState)) /\ ~isProcessing
                 THEN startProcessing(QState, FALSE)
                 ELSE QState)
    /\ UNCHANGED <<commandHistory, waiters, nextId>>
    /\ UNCHANGED notQueue

Outcomes == {"ok", "fail"}

\* The awaited file mutation / narration of the head action settles:
\* applyFileChange or logAssistantMessage returned ("ok") or threw ("fail");
\* a file action without a path, and a deferred COMMAND, return false.
DispatchDone(outcome) ==
    /\ loopPc \in {"dispatch", "deferred"}
    /\ LET a == Head(queue)
           ok == /\ loopPc = "dispatch"
                 /\ outcome = "ok"
                 /\ (a.type \in FileTypes => a.path # "")
       IN  SetQState(AfterProcessAction(IF ok THEN checkIfComplete(QState) ELSE QState,
                                        ok, paused))
    /\ UNCHANGED <<paused, commandHistory, waiters, nextId>>
    /\ UNCHANGED notQueue

\* A process runner whose result is recorded only when the command succeeded.
CmdExitRecordsSuccessOnlyMutant(id, ok) ==
    /\ id \in procs
    /\ procs' = procs \ {id}
    /\ commandHistory' = IF ok THEN Append(commandHistory, [actionId |-> id, success |-> ok])
                         ELSE commandHistory
    /\ loopPc' = IF loopPc = "cmdRun" /\ Head(queue).id = id THEN "cmdSettle" ELSE loopPc
    /\ UNCHANGED <<queue, isProcessing, paused, pendingCommands, queueEmptyResolvers,
                   ticks, restartTimer, waiters, nextId, applied, failures, dropped>>
    /\ UNCHANGED notQueue

\* The process of a COMMAND exits (success: exit code 0 within the timeout):
\* executeCommand returns a result either way and processAction records it.
CmdExit(id, ok) ==
    /\ id \in procs
    /\ procs' = procs \ {id}
    /\ commandHistory' = Append(commandHistory, [actionId |-> id, success |-> ok])
    /\ loopPc' = IF loopPc = "cmdRun" /\ Head(queue).id = id THEN "cmdSettle" ELSE loopPc
    /\ UNCHANGED <<queue, isProcessing, paused, pendingCommands, queueEmptyResolvers,
                   ticks, restartTimer, waiters, nextId, applied, failures, dropped>>
    /\ UNCHANGED notQueue

\* The 2-second settle delay after a command ends: the command leaves the
\* pending set and processAction returns true.
CmdSettled ==
    /\ loopPc = "cmdSettle"
    /\ LET a == Head(queue)
           S1 == checkIfComplete([QState EXCEPT !.pendingCommands = @ \ {a.id}])
       IN  SetQState(AfterProcessAction(S1, TRUE, paused))
    /\ UNCHANGED <<paused, commandHistory, waiters, nextId>>
    /\ UNCHANGED notQueue

Resolve(w, how) ==
    [st |-> "resolved", how |-> how, drained |-> IsComplete(QState),
     addedSince |-> waiters[w].addedSince]

TimerKinds == {"tick", "sleep", "restart"}

\* A timer of the queue fires: the next-tick batch of checkIfComplete, the
\* one-second sleep of the loop, or the restart check of the finally block.
TimerFires(kind) ==
    /\ CASE kind = "tick" -> ticks # <<>>
         [] kind = "sleep" -> loopPc = "sleep"
         [] kind = "restart" -> restartTimer > 0
    /\ CASE kind = "tick" ->
              /\ waiters' = [w \in WaiterIds |->
                               IF w \in SeqSet(Head(ticks)) /\ waiters[w].st = "pending"
                               THEN Resolve(w, "drained")
                               ELSE waiters[w]]
              /\ ticks' = Tail(ticks)
              /\ UNCHANGED <<queue, isProcessing, pendingCommands, queueEmptyResolvers,
                             loopPc, procs, restartTimer, applied, failures, dropped>>
         [] kind = "sleep" ->
              /\ SetQState(WhileLoop(QState, paused))
              /\ UNCHANGED waiters
         [] kind = "restart" ->
              /\ LET S0 == [QState EXCEPT !.restartTimer = @ - 1]
                 IN  SetQState(IF ~isProcessing /\ ~paused
                                  /\ (queue # <<>> \/ hasPendingCommands(S0))
                               THEN startProcessing(S0, paused)
                               ELSE S0)
              /\ UNCHANGED waiters
    /\ UNCHANGED <<paused, commandHistory, nextId>>
    /\ UNCHANGED notQueue

\* waitUntilComplete(timeoutMs)
WaitUntilComplete(w) ==
    /\ waiters[w].st = "none"
    /\ IF queue = <<>> /\ ~hasPendingCommands(QState)
       THEN /\ waiters' = [waiters EXCEPT ![w] = Resolve(w, "immediate")]
            /\ UNCHANGED queueEmptyResolvers
       ELSE /\ waiters' = [waiters EXCEPT ![w].st = "pending"]
            /\ queueEmptyResolvers' = Append(queueEmptyResolvers, w)
    /\ UNCHANGED <<queue, isProcessing, paused, pendingCommands, commandHistory,
                   loopPc, procs, ticks, restartTimer, nextId, applied, failures,
                   dropped>>
    /\ UNCHANGED notQueue

\* The timeout of a waitUntilComplete promise fires.
WaitTimeout(w) ==
    /\ waiters[w].st = "pending"
    /\ queueEmptyResolvers' = SeqRemove(queueEmptyResolvers, w)
    /\ waiters' = [waiters EXCEPT ![w] = Resolve(w, "timeout")]
    /\ UNCHANGED <<queue, isProcessing, paused, pendingCommands, commandHistory,
                   loopPc, procs, ticks, restartTimer, nextId, applied, failures,
                   dropped>>
    /\ UNCHANGED notQueue

AddInputs ==
    {<<t, p>> : t \in FileTypes, p \in {"", "a.txt"}} \cup {<<"COMMAND", "">>, <<"TEXT", "">>}

QNext ==
    \/ \E in \in AddInputs : AddAction(in[1], in[2])
    \/ Pause
    \/ Resume
    \/ \E o \in Outcomes : DispatchDone(o)
    \/ \E id \in ActionIds, ok \in BOOLEAN : CmdExit(id, ok)
    \/ CmdSettled
    \/ \E k \in TimerKinds : TimerFires(k)
    \/ \E w \in WaiterIds : WaitUntilComplete(w)
    \/ \E w \in WaiterIds : WaitTimeout(w)

(***************************************************************************)
(* generateProjectCode: the generate / lint / build / retry loop           *)
(* (src/src/services/code-generation.ts)                                   *)
(*                                                                         *)
(* Every generateCode call builds a new ResponseProcessor, and             *)
(* streamResponse gives it a new ActionQueue.  A queue is kept here by the *)
(* number of actions it has accepted and not finished.  Lint and build run *)
(* under execSync and block the event loop: no queue moves meanwhile.      *)
(* Diagnostics are kept as the set of file mentions they contain.          *)
(***************************************************************************)

\* const MAX_RETRIES = 5
MAX_RETRIES == 5

\* Bound: actions parsed from all the model streams of one call.
MaxQueued == 2

\* Files of the project directory (fs.existsSync); lib/gone.ts is not one.
ProjectFiles == {"app/page.tsx", "styles.css"}

\* The ways a diagnostic line names a file:
\*   paren  file.ts(3,4)    line  file.ts: line 3    colon  file.ts:3:4
\*   errorIn  Error in file.ts    bare  ./file.ts on a line of its own

Mentions ==
    [file : {"app/page.tsx"}, form : {"paren", "line", "colon", "errorIn", "bare"}]
        \cup [file : {"lib/gone.ts", "styles.css"}, form : {"colon"}]

\* The four regular expressions of filePatterns.
filePatterns == {"paren", "line", "colon", "errorIn"}

\* `\.tsx?` of every pattern
IsTsFile(file) == file \in {"app/page.tsx", "lib/gone.ts"}

\* A pattern that takes every file extension.
PatternMatchesAnyExtensionMutant(m) == m.form \in filePatterns

\* pattern.exec(errorText) finds this mention
PatternMatches(m) == IsTsFile(m.file) /\ m.form \in filePatterns

filesWithErrors(errorDetails) == {m.file : m \in {x \in errorDetails : PatternMatches(x)}}

\* What a run of lint or build printed (stdout and stderr) and whether it
\* exited with code 0.
LintRuns == [ok : BOOLEAN, out : {{}, {[file |-> "app/page.tsx", form |-> "line"]}}]
BuildRuns == [ok : BOOLEAN, out : {{}} \cup {{m} : m \in Mentions}]
NoRun == [ok |-> FALSE, out |-> {}]

\* lintError after the lint step: '' when lint exits with 0, its output
\* otherwise.  null and '' are both the empty set.
LintErrorOf(run) == IF run.ok THEN {} ELSE run.out

\* `const responseProcessor = claudeResponseData.responseProcessor`, taken
\* once from the initial generateCode call: the queue the loop waits for and
\* whose command history it reads.
WaitedQueue == 1

NoPrompt == [lint |-> {}, build |-> {}, files |-> {}, historyOf |-> 0]

\* The retry prompt: LINTING OUTPUT if lintError is truthy, BUILD OUTPUT,
\* CONTENT OF FILES WITH ERRORS for the matched files that exist, COMMAND
\* HISTORY of responseProcessor's queue.
RetryPromptOf(le, be) ==
    [lint |-> le,
     build |-> be,
     files |-> {f \in filesWithErrors(le \cup be) : f \in ProjectFiles},
     historyOf |-> WaitedQueue]

\* A retry that is also taken at the last attempt.
CanRetryInclusiveMutant(rc) == rc <= MAX_RETRIES

\* `if (retryCount < MAX_RETRIES)`
CanRetry(rc) == rc < MAX_RETRIES

\* The attempts reported one too few.
AttemptsOffByOneMutant == retryCount

\* The attempts reported as the failed builds plus one.
AttemptsCountsFailedBuildsMutant == buildFails + 1

\* `attempts: retryCount + 1` of the final result
Attempts == retryCount + 1

\* What a model stream delivers: a sequence of deltas (chunk.choices[0]
\* .delta.content), each a sequence of characters, "s" a whitespace one.
ModelStreams ==
    { <<>>, << <<>> >>, << <<"s">> >>, << <<"s">>, <<"s">> >>,
      << <<"s">>, <<"x">> >>, << <<"x">> >> }

\* fullResponse after the chunk loop: processChunk is called for the truthy
\* (non-empty) deltas only.
RECURSIVE FullResponseOf(_)
FullResponseOf(deltas) ==
    IF deltas = <<>> THEN <<>>
    ELSE Head(deltas) \o FullResponseOf(Tail(deltas))

\* The text deltas that the chunk loop of streamClaudeResponse hands to
\* processChunk: those with `part.textDelta && part.textDelta.trim().length > 0`.
RECURSIVE streamClaudeResponse(_)
streamClaudeResponse(deltas) ==
    IF deltas = <<>> THEN <<>>
    ELSE IF Trim(Head(deltas)) # <<>>
         THEN <<Head(deltas)>> \o streamClaudeResponse(Tail(deltas))
         ELSE streamClaudeResponse(Tail(deltas))

\* hasContent after the chunk loop
HasContent(deltas) == \E i \in 1..Len(deltas) : deltas[i] # <<>>

\* An emptiness test that looks at hasContent only.
StreamThrowsNoTrimMutant(deltas) == ~HasContent(deltas)

\* `if (!hasContent || fullResponse.trim().length === 0) throw`
StreamThrows(deltas) ==
    ~HasContent(deltas) \/ Trim(FullResponseOf(deltas)) = <<>>

SInit ==
    /\ modelStream \in ModelStreams
    /\ supPc = "generate"
    /\ retryCount = 0
    /\ success = FALSE
    /\ lintError = {}
    /\ buildError = {}
    /\ hasActualLintErrors = FALSE
    /\ outstanding = <<0>>
    /\ parsedTotal = 0
    /\ retryPrompt = NoPrompt
    /\ waitHow = "none"
    /\ streams = 1
    /\ lints = 0
    /\ builds = 0
    /\ buildFails = 0
    /\ lintRun = NoRun
    /\ buildRun = NoRun
    /\ atSuccess = <<0, 0, 0>>

\* No generation in progress.
SIdle == SInit /\ modelStream = <<>>

\* execSync blocks the thread during lint and build.
EventLoopFree == supPc \notin {"lint", "build"}

\* streamResponse: processChunk closes an action and adds it to the queue of
\* the generateCode call in progress.
ParseAction ==
    /\ supPc = "generate"
    /\ ~StreamThrows(modelStream)
    /\ parsedTotal < MaxQueued
    /\ parsedTotal' = parsedTotal + 1
    /\ outstanding' = [outstanding EXCEPT ![Len(outstanding)] = @ + 1]
    /\ UNCHANGED <<supPc, retryCount, success, lintError, buildError,
                   hasActualLintErrors, retryPrompt, waitHow, streams, lints,
                   builds, buildFails, lintRun, buildRun, atSuccess>>
    /\ UNCHANGED modelStream
    /\ UNCHANGED notSupervisor

\* The queue of the k-th generateCode call finishes (applies or drops) an
\* action.
QueueFinishes(k) ==
    /\ EventLoopFree
    /\ k \in DOMAIN outstanding
    /\ outstanding[k] > 0
    /\ outstanding' = [outstanding EXCEPT ![k] = @ - 1]
    /\ UNCHANGED <<supPc, retryCount, success, lintError, buildError,
                   hasActualLintErrors, parsedTotal, retryPrompt, waitHow, streams,
                   lints, builds, buildFails, lintRun, buildRun, atSuccess>>
    /\ UNCHANGED modelStream
    /\ UNCHANGED notSupervisor

\* `await generateCode(...)` settles: it returns the response, or throws (API
\* error, empty response) and generateProjectCode throws with it.  After a
\* return the loop condition is tested and waitUntilComplete is called.
GenerateReturns(ok) ==
    /\ supPc = "generate"
    /\ supPc' = IF ~ok \/ StreamThrows(modelStream) THEN "thrown"
                ELSE IF retryCount <= MAX_RETRIES THEN "wait" ELSE "collect"
    /\ UNCHANGED <<retryCount, success, lintError, buildError, hasActualLintErrors,
                   outstanding, parsedTotal, retryPrompt, waitHow, streams, lints,
                   builds, buildFails, lintRun, buildRun, atSuccess>>
    /\ UNCHANGED modelStream
    /\ UNCHANGED notSupervisor

\* A loop that runs lint in the first attempt only.
WaitReleasedSkipsLintOnRetryMutant(how) ==
    /\ supPc = "wait"
    /\ how = "drained" => outstanding[WaitedQueue] = 0
    /\ how = "timeout" => outstanding[WaitedQueue] > 0
    /\ waitHow' = how
    /\ lintError' = {}
    /\ supPc' = IF retryCount = 0 THEN "lint" ELSE "build"
    /\ UNCHANGED <<retryCount, success, buildError, hasActualLintErrors, outstanding,
                   parsedTotal, retryPrompt, streams, lints, builds, buildFails,
                   lintRun, buildRun, atSuccess>>
    /\ UNCHANGED modelStream
    /\ UNCHANGED notSupervisor

WaitOutcomes == {"drained", "timeout"}

\* `await actionQueue.waitUntilComplete()` of the loop settles: the waited
\* queue is drained, or the timeout fired on a queue that is not.
\* `lintError = null` follows.
WaitReleased(how) ==
    /\ supPc = "wait"
    /\ how = "drained" => outstanding[WaitedQueue] = 0
    /\ how = "timeout" => outstanding[WaitedQueue] > 0
    /\ waitHow' = how
    /\ lintError' = {}
    /\ supPc' = "lint"
    /\ UNCHANGED <<retryCount, success, buildError, hasActualLintErrors, outstanding,
                   parsedTotal, retryPrompt, streams, lints, builds, buildFails,
                   lintRun, buildRun, atSuccess>>
    /\ UNCHANGED modelStream
    /\ UNCHANGED notSupervisor

\* execSync('npm run lint:fix'), then `buildError = null`.
\* A lint step whose failure ends the generation.
LintFailureAbortsMutant(run) ==
    /\ supPc = "lint"
    /\ lintRun' = run
    /\ lintError' = LintErrorOf(run)
    /\ hasActualLintErrors' = ~run.ok
    /\ buildError' = {}
    /\ lints' = lints + 1
    /\ supPc' = IF run.ok THEN "build" ELSE "thrown"
    /\ UNCHANGED <<retryCount, success, outstanding, parsedTotal, retryPrompt,
                   waitHow, streams, builds, buildFails, buildRun, atSuccess>>
    /\ UNCHANGED modelStream
    /\ UNCHANGED notSupervisor

Lint(run) ==
    /\ supPc = "lint"
    /\ lintRun' = run
    /\ lintError' = LintErrorOf(run)
    /\ hasActualLintErrors' = ~run.ok
    /\ buildError' = {}
    /\ lints' = lints + 1
    /\ supPc' = "build"
    /\ UNCHANGED <<retryCount, success, outstanding, parsedTotal, retryPrompt,
                   waitHow, streams, builds, buildFails, buildRun, atSuccess>>
    /\ UNCHANGED modelStream
    /\ UNCHANGED notSupervisor

\* execSync('npm run build').  Exit code 0: success, leave the loop.
\* Otherwise, if a retry is left: count it, build the retry prompt, push it
\* and call generateCode again; else leave the loop.
Build(run) ==
    /\ supPc = "build"
    /\ buildRun' = run
    /\ buildError' = run.out
    /\ builds' = builds + 1
    /\ IF run.ok
       THEN /\ success' = TRUE
            /\ atSuccess' = <<streams, lints, builds + 1>>
            /\ supPc' = "deployWait"
            /\ UNCHANGED <<retryCount, retryPrompt, outstanding, streams, buildFails,
                           modelStream>>
       ELSE /\ buildFails' = buildFails + 1
            /\ IF CanRetry(retryCount)
               THEN /\ retryCount' = retryCount + 1
                    /\ retryPrompt' = RetryPromptOf(lintError, run.out)
                    /\ outstanding' = Append(outstanding, 0)
                    /\ streams' = streams + 1
                    /\ modelStream' \in ModelStreams
                    /\ supPc' = "generate"
               ELSE /\ supPc' = "collect"
                    /\ UNCHANGED <<retryCount, retryPrompt, outstanding, streams,
                                   modelStream>>
            /\ UNCHANGED <<success, atSuccess>>
    /\ UNCHANGED <<lintError, hasActualLintErrors, parsedTotal, waitHow, lints, lintRun>>
    /\ UNCHANGED notSupervisor

\* After a successful build: waitUntilComplete again, then the deployment.
DeployWait(how) ==
    /\ supPc = "deployWait"
    /\ how = "drained" => outstanding[WaitedQueue] = 0
    /\ how = "timeout" => outstanding[WaitedQueue] > 0
    /\ waitHow' = how
    /\ supPc' = "collect"
    /\ UNCHANGED <<retryCount, success, lintError, buildError, hasActualLintErrors,
                   outstanding, parsedTotal, retryPrompt, streams, lints, builds,
                   buildFails, lintRun, buildRun, atSuccess>>
    /\ UNCHANGED modelStream
    /\ UNCHANGED notSupervisor

\* collectProjectFiles, then the result is returned.
Collect ==
    /\ supPc = "collect"
    /\ supPc' = "done"
    /\ UNCHANGED <<retryCount, success, lintError, buildError, hasActualLintErrors,
                   outstanding, parsedTotal, retryPrompt, waitHow, streams, lints,
                   builds, buildFails, lintRun, buildRun, atSuccess>>
    /\ UNCHANGED modelStream
    /\ UNCHANGED notSupervisor

SNext ==
    \/ ParseAction
    \/ \E k \in 1..(MAX_RETRIES + 1) : QueueFinishes(k)
    \/ \E ok \in BOOLEAN : GenerateReturns(ok)
    \/ \E how \in WaitOutcomes : WaitReleased(how)
    \/ \E run \in LintRuns : Lint(run)
    \/ \E run \in BuildRuns : Build(run)
    \/ \E how \in WaitOutcomes : DeployWait(how)
    \/ Collect

(***************************************************************************)
(* resolveProjectPath (src/src/utils/path-utils.ts)                        *)
(*                                                                         *)
(* A path is its sequence of characters; path.isAbsolute, path.normalize   *)
(* and path.join are the POSIX ones of Node.js.                            *)
(***************************************************************************)

\* Bound: length of the path of an action.
MaxPathLen == 5

Paths == UNION {[1..n -> {"/", ".", "p", "x"}] : n \in 0..MaxPathLen}

\* The project directory of the queue.
projectDir == <<"/", "p">>

DotDot == <<".", ".">>

isAbsolute(p) == p # <<>> /\ p[1] = "/"

startsWith(s, prefix) ==
    /\ Len(s) >= Len(prefix)
    /\ SubSeq(s, 1, Len(prefix)) = prefix

\* The segments between the separators of s; cur is the segment in progress.
RECURSIVE Segments(_, _)
Segments(s, cur) ==
    IF s = <<>> THEN <<cur>>
    ELSE IF Head(s) = "/" THEN <<cur>> \o Segments(Tail(s), <<>>)
    ELSE Segments(Tail(s), Append(cur, Head(s)))

\* normalizeString of Node's path module: drops empty and '.' segments, lets
\* '..' remove the segment before it, keeps leading '..' of a relative path.
RECURSIVE normalizeString(_, _, _)
normalizeString(segs, res, allowAboveRoot) ==
    IF segs = <<>> THEN res
    ELSE LET g == Head(segs)
             rest == Tail(segs)
         IN  IF g = <<>> \/ g = <<".">>
             THEN normalizeString(rest, res, allowAboveRoot)
             ELSE IF g = DotDot
             THEN IF res # <<>> /\ res[Len(res)] # DotDot
                  THEN normalizeString(rest, SubSeq(res, 1, Len(res) - 1), allowAboveRoot)
                  ELSE IF allowAboveRoot
                  THEN normalizeString(rest, Append(res, g), allowAboveRoot)
                  ELSE normalizeString(rest, res, allowAboveRoot)
             ELSE normalizeString(rest, Append(res, g), allowAboveRoot)

RECURSIVE JoinSegments(_)
JoinSegments(segs) ==
    IF segs = <<>> THEN <<>>
    ELSE IF Len(segs) = 1 THEN Head(segs)
    ELSE Head(segs) \o <<"/">> \o JoinSegments(Tail(segs))

\* path.normalize
normalize(p) ==
    IF p = <<>> THEN <<".">>
    ELSE LET abs == isAbsolute(p)
             trailingSeparator == p[Len(p)] = "/"
             body == JoinSegments(normalizeString(Segments(p, <<>>), <<>>, ~abs))
         IN  IF body = <<>>
             THEN IF abs THEN <<"/">>
                  ELSE IF trailingSeparator THEN <<".", "/">> ELSE <<".">>
             ELSE (IF abs THEN <<"/">> ELSE <<>>) \o body
                      \o (IF trailingSeparator THEN <<"/">> ELSE <<>>)

\* path.join of two arguments
join(a, b) ==
    IF b = <<>> THEN normalize(a) ELSE normalize(a \o <<"/">> \o b)

Unresolved == [status |-> "pending", path |-> <<>>]
SecurityViolation == [status |-> "rejected", path |-> <<>>]

resolveProjectPath(dir, rel) ==
    IF isAbsolute(rel)
    THEN IF ~startsWith(rel, dir)
         THEN SecurityViolation
         ELSE [status |-> "ok", path |-> rel]
    ELSE LET normalizedPath == normalize(rel)
         IN  IF startsWith(normalizedPath, DotDot)
             THEN SecurityViolation
             ELSE [status |-> "ok", path |-> join(dir, normalizedPath)]

\* The file the operating system opens for path p is dir or lies below it.
InsideProject(dir, p) ==
    LET n == normalize(p)
    IN  n = dir \/ startsWith(n, dir \o <<"/">>)

TInit ==
    /\ relativePath \in Paths
    /\ resolved = Unresolved

\* No path to resolve.
TIdle ==
    /\ relativePath = <<>>
    /\ resolved = Unresolved

\* The file mutator resolves the path of its action.
ResolvePath ==
    /\ resolved = Unresolved
    /\ resolved' = resolveProjectPath(projectDir, relativePath)
    /\ UNCHANGED relativePath
    /\ UNCHANGED notPath

TNext == ResolvePath

-----------------------------------------------------------------------------
(***************************************************************************)
(* File mutator: applyFileChange and the branch of processAction that      *)
(* calls it, for two generations that run in one process on their own      *)
(* project directories, each with its own ActionQueue.                     *)
(***************************************************************************)

\* Bound: actions queued by the generations together.
MaxFileActions == 2

Generations == {1, 2}

\* The project directory of a generation.
DirOf(g) == IF g = 1 THEN projectDir ELSE <<"/", "q">>

\* Paths the model stream names in its actions: a relative one, one with a
\* leading blank and a relative one that leaves the project directory.
RelativePath == <<"x">>
ActionPaths == {RelativePath, <<"s", "x">>, <<".", ".", "/", "q", "/", "x">>}

\* An absolute path that starts with the project directory of generation 1.
AbsolutePath == <<"/", "p", "/", ".", ".", "/", "q", "/", "x">>

RECURSIVE StripLeading(_)
StripLeading(p) ==
    IF p # <<>> /\ Head(p) \notin {"/", ".", "p", "q", "x"}
    THEN StripLeading(Tail(p))
    ELSE p

\* filePath.replace(/^[^a-zA-Z0-9/._-]+/, '').trim()
cleanPath(p) == Trim(StripLeading(p))

Absent == [exists |-> FALSE, content |-> <<>>]
File(c) == [exists |-> TRUE, content |-> c]

\* The file the operating system addresses for a resolved path.
FileAt(full) == normalize(full)

DiskFiles ==
    { FileAt(r.path) :
        r \in { q \in { resolveProjectPath(DirOf(g), cleanPath(p)) :
                          g \in Generations, p \in ActionPaths \cup {AbsolutePath} } :
                q.status = "ok" } }

\* FirestoreLogger.log and _logChatMessage: the write to Firestore is inside
\* a try whose catch prints the error; the call returns either way.
SinkCallRethrowsMutant(s) == [delivered |-> s = "up", threw |-> s = "down"]

SinkCall(s) == [delivered |-> s = "up", threw |-> FALSE]

\* `if (firestoreLogger) await firestoreLogger.x(...)`
Notify(s) == IF s = "none" THEN [delivered |-> FALSE, threw |-> FALSE] ELSE SinkCall(s)

\* An EDIT that always counts as a change.
hasChangesAlwaysMutant(oldContent, newContent) == TRUE

\* generateColoredDiff: hasChanges = oldContent !== newContent
hasChanges(oldContent, newContent) == oldContent # newContent

Effect(d, threw, writes, deletes, delivered, touched) ==
    [disk |-> d, threw |-> threw, writes |-> writes, deletes |-> deletes,
     delivered |-> delivered, touched |-> touched]

\* writeProjectFileAsync / deleteProjectFileAsync after the sink was told;
\* io is what the file system call does.
Mutate(d, f, new, n, io, isWrite) ==
    IF n.threw THEN Effect(d, TRUE, 0, 0, n.delivered, {})
    ELSE IF io # "ok" THEN Effect(d, TRUE, 0, 0, n.delivered, {})
    ELSE Effect([d EXCEPT ![f] = new], FALSE,
                IF isWrite THEN 1 ELSE 0, IF isWrite THEN 0 ELSE 1,
                n.delivered, {f})

\* applyFileChange(projectDir, action, filePath, content, firestoreLogger) on
\* disk d.  A path that resolveProjectPath rejects makes it throw.
applyFileChange(dir, type, filePath, content, d, s, io) ==
    LET fullPath == resolveProjectPath(dir, cleanPath(filePath))
        f == FileAt(fullPath.path)
    IN  IF fullPath.status # "ok"
        THEN Effect(d, TRUE, 0, 0, FALSE, {})
        ELSE IF type = "CREATE"
        THEN Mutate(d, f, File(content), Notify(s), io, TRUE)
        ELSE IF type = "EDIT"
        THEN LET oldContent == IF d[f].exists THEN d[f].content ELSE <<>>
             IN  IF ~hasChanges(oldContent, content)
                 THEN Effect(d, FALSE, 0, 0, FALSE, {})
                 ELSE Mutate(d, f, File(content), Notify(s), io, TRUE)
        ELSE IF d[f].exists
             THEN Mutate(d, f, Absent, Notify(s), io, FALSE)
             ELSE Effect(d, FALSE, 0, 0, FALSE, {})

\* processAction for an action that is not a COMMAND: false when
\* applyFileChange throws, true otherwise.
processFileAction(dir, a, d, s, io) ==
    IF a.type = "TEXT"
    THEN LET n == Notify(s)
         IN  Effect(d, n.threw, 0, 0, n.delivered, {})
    ELSE IF a.path = <<>>
    THEN Effect(d, TRUE, 0, 0, FALSE, {})
    ELSE applyFileChange(dir, a.type, a.path, a.content, d, s, io)

NoDispatch ==
    [g |-> 0, a |-> NewQueuedAction(0, "TEXT", <<>>) @@ [content |-> <<>>],
     before |-> [f \in DiskFiles |-> Absent], io |-> "ok",
     ok |-> FALSE, writes |-> 0, deletes |-> 0, delivered |-> FALSE,
     queueBefore |-> <<>>, queueAfter |-> <<>>]

FInit ==
    /\ fsQueue = [g \in Generations |-> <<>>]
    /\ fsNext = 1
    /\ \E c \in {Absent, File(<<"a">>)} :
          disk = [f \in DiskFiles |-> IF InsideProject(DirOf(1), f) THEN c ELSE Absent]
    /\ sink \in {"none", "up", "down"}
    /\ fsLast = NoDispatch
    /\ fsTouched = {}

\* No generation at work on the disk.
FIdle ==
    /\ fsQueue = [g \in Generations |-> <<>>]
    /\ fsNext = 1
    /\ disk = [f \in DiskFiles |-> Absent]
    /\ sink = "none"
    /\ fsLast = NoDispatch
    /\ fsTouched = {}

\* The parser of generation g hands an action to the queue of g.
FsAdd(g, type, path, content) ==
    /\ fsNext <= MaxFileActions
    /\ fsQueue' = [fsQueue EXCEPT ![g] =
                      Append(@, NewQueuedAction(fsNext, type, path)
                                    @@ [content |-> content])]
    /\ fsNext' = fsNext + 1
    /\ UNCHANGED <<disk, sink, fsLast, fsTouched>>
    /\ UNCHANGED notFiles

\* The queue of g as the ActionQueue sees it while it awaits processAction.
FsQState(g) ==
    [queue |-> fsQueue[g],
     isProcessing |-> TRUE, pendingCommands |-> {}, procs |-> {},
     pc |-> "dispatch", resolvers |-> <<>>, ticks |-> <<>>, restartTimer |-> 0,
     applied |-> <<>>, failures |-> [i \in 1..MaxFileActions |-> 0], dropped |-> {}]

\* The queue of g dispatches its head: processAction with applyFileChange,
\* then the result handling of startProcessing.
FsDispatch(g, io) ==
    /\ fsQueue[g] # <<>>
    /\ LET a == Head(fsQueue[g])
           R == processFileAction(DirOf(g), a, disk, sink, io)
           S == AfterProcessAction(FsQState(g), ~R.threw, FALSE)
       IN  /\ disk' = R.disk
           /\ fsQueue' = [fsQueue EXCEPT ![g] = S.queue]
           /\ fsTouched' = fsTouched \cup {<<g, f>> : f \in R.touched}
           /\ fsLast' = [g |-> g, a |-> a, before |-> disk,
                         io |-> io, ok |-> ~R.threw, writes |-> R.writes,
                         deletes |-> R.deletes, delivered |-> R.delivered,
                         queueBefore |-> FsQState(g).queue, queueAfter |-> S.queue]
    /\ UNCHANGED <<fsNext, sink>>
    /\ UNCHANGED notFiles

\* One generation: the actions its model stream may hold.
FsInputs ==
    {<<"CREATE", p, <<"a">>>> : p \in ActionPaths}
        \cup {<<"EDIT", RelativePath, c>> : c \in {<<"a">>, <<"b">>}}
        \cup {<<"DELETE", RelativePath, <<>>>>, <<"TEXT", <<>>, <<"a">>>>}

FNext ==
    \/ \E in \in FsInputs : FsAdd(1, in[1], in[2], in[3])
    \/ \E io \in {"ok", "failed"} : FsDispatch(1, io)

\* Two generations at once: the actions their model streams may hold.
ConcurrentInputs ==
    {<<t, p>> : t \in {"CREATE", "DELETE"}, p \in {RelativePath, AbsolutePath}}

ConcurrentNext ==
    \/ \E g \in Generations : \E in \in ConcurrentInputs :
           FsAdd(g, in[1], in[2], IF in[1] = "CREATE" THEN <<"a">> ELSE <<>>)
    \/ \E g \in Generations : FsDispatch(g, "ok")

-----------------------------------------------------------------------------
(* The /generate handler and the conversation of a project                  *)
(* (src/src/index.ts, src/src/services/code-generation.ts,                 *)
(* src/src/claude-client.ts).  One project, one request at a time.  A      *)
(* prompt, a response and a retry prompt are token sequences; a response   *)
(* is a text of the action protocol.                                       *)

MaxGenerations == 2

CInit ==
    /\ project = "none"
    /\ conversationHistory = <<>>
    /\ cleanup = FALSE
    /\ isNewProject = TRUE
    /\ existingConversation = <<>>
    /\ sessionConversationHistory = <<>>
    /\ conversations = <<>>
    /\ requestMessages = <<>>
    /\ claudeResponse = <<>>
    /\ genPc = "idle"

\* generateCode, the conversation formatting: the role of a message is its
\* index parity; a user message is the formattedPrompt of the UserPrompt,
\* behind the follow-up prefix when isFollowUp is set; an assistant message
\* is its userPrompt with the file actions replaced by placeholders.
generateCode(convs) ==
    [i \in 1..Len(convs) |->
        IF (i - 1) % 2 = 0
        THEN [role |-> "user",
              content |-> (IF convs[i].isFollowUp
                           THEN <<"This is a follow-up request">> ELSE <<>>)
                              \o <<"# User Prompt:">> \o convs[i].userPrompt]
        ELSE [role |-> "assistant",
              content |-> filterWithModifiedRegex(convs[i].userPrompt)]]

\* The /generate handler up to the first model request.  The project is a
\* follow-up when its entry exists with a directory; its stored history is
\* read before the prompt is stored.  generateProjectCode turns the history
\* into UserPrompt objects, starts the session history with the new prompt
\* and calls generateCode with the two concatenated.
GenerateRequest ==
    /\ genPc = "idle"
    /\ project \in {"none", "ready"}
    /\ Len(SelectSeq(conversationHistory, LAMBDA m : m.role = "user")) < MaxGenerations
    /\ \E newPrompt \in {<<"x">>, <<"x", "x">>}, c \in BOOLEAN :
         LET isFollowUp == project = "ready"
             history == IF isFollowUp THEN conversationHistory ELSE <<>>
             formattedExistingConversation ==
                 [i \in 1..Len(history) |->
                     [userPrompt |-> history[i].content,
                      isFollowUp |-> history[i].role = "user" /\ history[i].isFollowUp]]
             session == <<[userPrompt |-> newPrompt, isFollowUp |-> isFollowUp]>>
         IN  /\ cleanup' = c
             /\ isNewProject' = ~isFollowUp
             /\ project' = "ready"
             /\ conversationHistory' =
                    IF c THEN conversationHistory
                    ELSE Append(conversationHistory,
                                [role |-> "user", content |-> newPrompt,
                                 isFollowUp |-> isFollowUp])
             /\ existingConversation' = history
             /\ sessionConversationHistory' = session
             /\ conversations' = formattedExistingConversation \o session
             /\ requestMessages' = generateCode(formattedExistingConversation \o session)
    /\ genPc' = "stream"
    /\ UNCHANGED <<claudeResponse, qvars, pvars, svars, tvars, fvars>>

\* generateCode returns the response of the model, which is pushed on the
\* session history.
ReceiveResponse ==
    /\ genPc = "stream"
    /\ \E r \in {<<"<", "T", ">", "x", "/", ">">>, <<"<", "C", "p", ">", "x", "/", ">">>} :
         /\ claudeResponse' = r
         /\ sessionConversationHistory' =
                Append(sessionConversationHistory, [userPrompt |-> r, isFollowUp |-> FALSE])
    /\ genPc' = "verify"
    /\ UNCHANGED <<project, conversationHistory, cleanup, isNewProject,
                   existingConversation, conversations, requestMessages,
                   qvars, pvars, svars, tvars, fvars>>

\* A retry that sends the session history without the existing conversation.
RetryGenerationSessionOnlyMutant ==
    LET retries == (Len(sessionConversationHistory) - 2) \div 2
        session == Append(sessionConversationHistory,
                          [userPrompt |-> <<"retry attempt",
                                            <<"1", "2", "3", "4", "5">>[retries + 1]>>,
                           isFollowUp |-> TRUE])
    IN  /\ genPc = "verify"
        /\ retries < MAX_RETRIES
        /\ sessionConversationHistory' = session
        /\ conversations' = session
        /\ requestMessages' = generateCode(session)
        /\ genPc' = "stream"
        /\ UNCHANGED <<project, conversationHistory, cleanup, isNewProject,
                       existingConversation, claudeResponse,
                       qvars, pvars, svars, tvars, fvars>>

\* Lint or build failed and retryCount < MAX_RETRIES: the retry prompt,
\* which names the attempt, is pushed on the session history and generateCode
\* is called with the existing conversation followed by the session history.
RetryGeneration ==
    LET retries == (Len(sessionConversationHistory) - 2) \div 2
        retryPromptText == <<"retry attempt", <<"1", "2", "3", "4", "5">>[retries + 1]>>
        formattedExistingConversation ==
            [i \in 1..Len(existingConversation) |->
                [userPrompt |-> existingConversation[i].content,
                 isFollowUp |-> existingConversation[i].role = "user"
                                   /\ existingConversation[i].isFollowUp]]
        session == Append(sessionConversationHistory,
                          [userPrompt |-> retryPromptText, isFollowUp |-> TRUE])
    IN  /\ genPc = "verify"
        /\ retries < MAX_RETRIES
        /\ sessionConversationHistory' = session
        /\ conversations' = formattedExistingConversation \o session
        /\ requestMessages' = generateCode(formattedExistingConversation \o session)
        /\ genPc' = "stream"
        /\ UNCHANGED <<project, conversationHistory, cleanup, isNewProject,
                       existingConversation, claudeResponse,
                       qvars, pvars, svars, tvars, fvars>>

\* generateProjectCode returns, with success after a build that passed or
\* without it after the last retry; the handler stores the assistant
\* response of a successful generation and removes the directory of a new
\* project generated with cleanup.
FinishGeneration ==
    /\ genPc = "verify"
    /\ \E ok \in BOOLEAN :
         /\ ok \/ (Len(sessionConversationHistory) - 2) \div 2 = MAX_RETRIES
         /\ conversationHistory' =
                IF ok /\ ~cleanup /\ claudeResponse # <<>>
                THEN Append(conversationHistory,
                            [role |-> "assistant", content |-> claudeResponse,
                             isFollowUp |-> FALSE])
                ELSE conversationHistory
    /\ project' = IF cleanup /\ isNewProject THEN "removed" ELSE project
    /\ genPc' = "idle"
    /\ UNCHANGED <<cleanup, isNewProject, existingConversation,
                   sessionConversationHistory, conversations, requestMessages,
                   claudeResponse, qvars, pvars, svars, tvars, fvars>>

CNext ==
    \/ GenerateRequest
    \/ ReceiveResponse
    \/ RetryGeneration
    \/ FinishGeneration

-----------------------------------------------------------------------------
(* Specifications                                                          *)

Init == QInit /\ PIdle /\ SIdle /\ TIdle /\ FIdle /\ CInit
Next == QNext
Spec == Init /\ [][Next]_vars

ParserInit == PInit /\ QInit /\ SIdle /\ TIdle /\ FIdle /\ CInit
SpecParser == ParserInit /\ [][PNext]_vars

\* The parser on texts that hold CREATE and EDIT start tags without a path
\* attribute.
PathlessInit ==
    /\ stream \in {Flatten(ls) :
                      ls \in UNION {[1..n -> {<<"<", "C", ">">>, <<"<", "E", ">">>,
                                              <<"/", ">">>, <<"s", "x">>}] :
                                       n \in 0..MaxLexemes}}
    /\ fullResponse = <<>>
    /\ chunkBuffer = <<>>
    /\ currentFileAction = NoAction
    /\ streamingContent = <<>>
    /\ enqueued = <<>>
    /\ splitSeen = FALSE
    /\ streamEnded = FALSE
    /\ messages = <<>>
    /\ QInit /\ SIdle /\ TIdle /\ FIdle /\ CInit
SpecPathless == PathlessInit /\ [][PNext]_vars

SupervisorInit == SInit /\ QInit /\ PIdle /\ TIdle /\ FIdle /\ CInit
SpecSupervisor == SupervisorInit /\ [][SNext]_vars

PathInit == TInit /\ QInit /\ PIdle /\ SIdle /\ FIdle /\ CInit
SpecPath == PathInit /\ [][TNext]_vars

FilesInit == FInit /\ QInit /\ PIdle /\ SIdle /\ TIdle /\ CInit
SpecFiles == FilesInit /\ [][FNext]_vars

ConcurrentInit == FInit /\ QInit /\ PIdle /\ SIdle /\ TIdle /\ CInit /\ sink = "none"
SpecConcurrent == ConcurrentInit /\ [][ConcurrentNext]_vars

ConversationInit == CInit /\ QInit /\ PIdle /\ SIdle /\ TIdle /\ FIdle
SpecConversation == ConversationInit /\ [][CNext]_vars

Drained == queue = <<>> /\ pendingCommands = {} /\ ~isProcessing

\* Scheduling the event loop guarantees: an awaited operation settles, a
\* process exits or is killed by its timeout, a due timer fires; a queue
\* that is not left paused is resumed.
QFairness ==
    /\ WF_vars(\E o \in Outcomes : DispatchDone(o))
    /\ WF_vars(\E id \in ActionIds, ok \in BOOLEAN : CmdExit(id, ok))
    /\ WF_vars(CmdSettled)
    /\ WF_vars(Resume)

\* The queue with no waitUntilComplete caller (no resolver, no tick).
QNextLive ==
    \/ \E in \in AddInputs : AddAction(in[1], in[2])
    \/ Pause
    \/ Resume
    \/ \E o \in Outcomes : DispatchDone(o)
    \/ \E id \in ActionIds, ok \in BOOLEAN : CmdExit(id, ok)
    \/ CmdSettled

SpecQueueLive == Init /\ [][QNextLive]_vars /\ QFairness


-----------------------------------------------------------------------------
(* Branches of startProcessing that no run reaches: the loop never finds a *)
(* command pending at its head, because processAction clears the pending   *)
(* set before it returns and only one loop runs at a time.                 *)
UnreachedBranches ==
    /\ loopPc \notin {"sleep", "deferred"}
    /\ restartTimer = 0
    /\ \A i \in 1..Len(queue) : ~queue[i].processed

-----------------------------------------------------------------------------
(* C1: within one queue at most one COMMAND is pending at any time, and no *)
(* COMMAND is handed to the process runner while another one of the same   *)
(* queue is dispatched and not yet cleared from the pending set.           *)
C1_AtMostOnePendingCommand ==
    /\ Cardinality(pendingCommands) <= 1
    /\ Cardinality(procs) <= 1
    /\ procs \subseteq pendingCommands

\* A COMMAND is running while a second COMMAND waits behind it.
C1_Witness ==
    /\ Len(queue) >= 2
    /\ queue[1].type = "COMMAND"
    /\ queue[2].type = "COMMAND"
    /\ procs = {queue[1].id}

C8_AppliedInEnqueueOrder ==
    /\ \A i, j \in 1..Len(applied) :
          (i < j /\ applied[i] > applied[j]) => failures[applied[j]] > 0
    /\ (\A id \in ActionIds : failures[id] = 0)
          => applied = [i \in 1..Len(applied) |-> i]

\* Two actions applied in order without any failure.
C8_Witness ==
    /\ applied = <<1, 2>>
    /\ \A id \in ActionIds : failures[id] = 0


(* C4: on a queue that is not left paused, every action added is           *)
(* eventually applied or dropped, and the queue eventually stays drained,  *)
(* also when actions fail on every dispatch.                               *)
C4_QueueLiveness ==
    /\ [](\A id \in 1..(nextId - 1) :
            \/ \E i \in 1..Len(queue) : queue[i].id = id
            \/ id \in SeqSet(applied)
            \/ id \in dropped)
    /\ <>[]Drained

\* An action failed on every dispatch and was dropped, and the queue drained.
C4_Witness ==
    /\ \E id \in ActionIds : id \in dropped /\ failures[id] = QUEUE_MAX_RETRIES
    /\ Len(applied) >= 1
    /\ Drained


-----------------------------------------------------------------------------
\* One processChunk call on the whole text received so far.
OneShot(text) == processChunk(NewParser, text)

(* C3: chunk-boundary invariance.  However the text is split into          *)
(* fragments, the actions enqueued so far are those one processChunk call  *)
(* on the same text enqueues, and the parser is left in the same state.    *)
C3_ChunkBoundaryInvariance ==
    LET whole == OneShot(fullResponse)
    IN  /\ enqueued = whole.enq
        /\ currentFileAction = whole.cur
        /\ chunkBuffer = whole.buf

\* A CREATE tag split inside its start tag or closing tag yields one action
\* whose content is the whole body.
C3_Witness ==
    /\ splitSeen
    /\ stream = <<>>
    /\ fullResponse = <<"<", "C", "p", ">", "s", "x", "/", ">">>
    /\ enqueued = <<[type |-> "CREATE", path |-> "a.txt", content |-> <<"s", "x">>]>>

(***************************************************************************)
(* C2: in every attempt, the first and every retry alike, lint does not    *)
(* begin until the queue that received the actions of that attempt's model *)
(* stream is drained, or that queue's waitUntilComplete timed out.         *)
(***************************************************************************)
C2_LintAfterAttemptQueueDrained ==
    supPc = "lint" =>
        \/ outstanding[retryCount + 1] = 0
        \/ (WaitedQueue = retryCount + 1 /\ waitHow = "timeout")

C6_AcceptedPathsAreRelativeAndInside ==
    resolved.status = "ok" =>
        /\ ~isAbsolute(relativePath)
        /\ InsideProject(projectDir, resolved.path)

\* A dispatch of the head action is in progress.
Dispatching == loopPc \in {"dispatch", "deferred", "cmdRun", "cmdSettle"}

(***************************************************************************)
(* C13: every queued action has 0 <= retryCount <= MAX_RETRIES, and an     *)
(* action whose retryCount has reached MAX_RETRIES is never dispatched     *)
(* again: none in dispatch has reached it, and a dropped action is not in  *)
(* the queue.                                                              *)
(***************************************************************************)
C13_RetryCountBounded ==
    /\ \A i \in 1..Len(queue) :
          /\ queue[i].retryCount \in 0..QUEUE_MAX_RETRIES
          /\ queue[i].retryCount = failures[queue[i].id]
          /\ queue[i].id \notin dropped
    /\ Dispatching => Head(queue).retryCount < QUEUE_MAX_RETRIES
    /\ \A id \in ActionIds : failures[id] <= QUEUE_MAX_RETRIES

\* An action that failed MAX_RETRIES - 1 times is dispatched once more.
C13_Witness ==
    /\ loopPc = "dispatch"
    /\ Head(queue).retryCount = QUEUE_MAX_RETRIES - 1

C15_FailedCommandRetried ==
    \A i \in 1..Len(commandHistory) :
        LET id == commandHistory[i].actionId
        IN  ~commandHistory[i].success =>
                \/ id \in pendingCommands
                \/ failures[id] >= 1

\* The ids of the queued actions that are not in dispatch, in queue order.
WaitingIds ==
    LET q == IF Dispatching THEN Tail(queue) ELSE queue
    IN  [i \in 1..Len(q) |-> q[i].id]

IsPrefix(a, b) == Len(a) <= Len(b) /\ SubSeq(b, 1, Len(a)) = a

\* The command line executeCommand runs and records, from the content of the
\* COMMAND action: trimmed; when longer than 20 characters and its second
\* half starts with the first 20 characters of its first half, the first
\* half, trimmed.  A token is one character.  The whitespace of the
\* alphabet is the blank, which the line-break replacement leaves alone,
\* and no text of the alphabet spells npm, npx or shadcn, which the two
\* patterns of the other branch need.
executeCommand(command) ==
    LET cleanedCommand == Trim(command)
        halfLength == Len(cleanedCommand) \div 2
        firstHalf == SubSeq(cleanedCommand, 1, halfLength)
        secondHalf == SubSeq(cleanedCommand, halfLength + 1, Len(cleanedCommand))
        probe == SubSeq(firstHalf, 1, IF Len(firstHalf) < 20 THEN Len(firstHalf) ELSE 20)
    IN  IF Len(cleanedCommand) > 20 /\ IsPrefix(probe, secondHalf)
        THEN Trim(firstHalf)
        ELSE cleanedCommand

\* This step hands an action to processAction: the loop is in a dispatch
\* afterwards, and it was not before or the previous dispatch has returned.
DispatchBegins ==
    /\ loopPc' \in {"dispatch", "deferred", "cmdRun"}
    /\ ~Dispatching \/ applied' # applied \/ failures' # failures

\* The action has been handed to processAction at least once.
DispatchedOnce(id) ==
    \/ failures[id] > 0
    \/ id \in SeqSet(applied)
    \/ Dispatching /\ Head(queue).id = id

(***************************************************************************)
(* C19: while the queue stays paused no action begins dispatch and the     *)
(* queued actions not in dispatch are neither removed nor reordered        *)
(* (addAction appends behind them); and, the queue not being left paused,  *)
(* every action that was queued is eventually dispatched.                  *)
(***************************************************************************)
C19_PauseHoldsResumeRestarts ==
    /\ [][(paused /\ paused') =>
            (~DispatchBegins /\ IsPrefix(WaitingIds, WaitingIds'))]_vars
    /\ <>[](\A id \in ActionIds : id < nextId => DispatchedOnce(id))

\* Two actions wait in a paused queue; nothing has been dispatched.
C19_Witness ==
    /\ paused
    /\ ~isProcessing
    /\ Len(queue) = 2
    /\ \A id \in ActionIds : ~DispatchedOnce(id)

C17_EmptyStreamSurfacedImmediately ==
    /\ [](supPc \in {"wait", "lint", "build"} => ~StreamThrows(modelStream))
    /\ [][(supPc = "generate" /\ supPc' # "generate" /\
           (~HasContent(modelStream) \/ Trim(FullResponseOf(modelStream)) = <<>>))
             => (supPc' = "thrown" /\ UNCHANGED <<streams, lints, builds>>)]_vars
    /\ [][supPc = "thrown" => UNCHANGED <<supPc, streams, lints, builds, retryCount>>]_vars

C17_Witness ==
    /\ supPc = "thrown"
    /\ retryCount > 0
    /\ modelStream = << <<"s">>, <<"s">> >>

\* C18: when the model stream has ended while an action is still open (its
\* start tag was matched and its closing tag never arrived), the content
\* accumulated so far has been handed to the queue as an action of that type
\* and path.
C18_OpenActionExposedAtEnd ==
    (streamEnded /\ currentFileAction.type # "NONE") =>
        \E i \in 1..Len(enqueued) :
            /\ enqueued[i].type = currentFileAction.type
            /\ enqueued[i].path = currentFileAction.path
            /\ enqueued[i].content = currentFileAction.content \o chunkBuffer

\* The file that the last dispatched action addresses, when its path is
\* accepted.
LastResolved == resolveProjectPath(DirOf(fsLast.g), cleanPath(fsLast.a.path))
LastFile == FileAt(LastResolved.path)
LastIsFileAction == fsLast.g # 0 /\ fsLast.a.type \in FileTypes /\ LastResolved.status = "ok"

\* The action was removed from the queue and nothing else in it changed.
LastRemovedUnchanged ==
    /\ fsLast.ok
    /\ fsLast.queueAfter = Tail(fsLast.queueBefore)
    /\ Head(fsLast.queueBefore) = fsLast.a

C12_NoCrossWrite ==
    \A t \in fsTouched : InsideProject(DirOf(t[1]), t[2])

C28_CommandContentIsBodyOnce ==
    LET m == FirstMatch(fullResponse)
    IN  (m.ok /\ m.type = "COMMAND" /\ enqueued # <<>>) =>
            /\ enqueued[1].type = "COMMAND"
            /\ Trim(enqueued[1].content) =
                   Trim(Substring(fullResponse, m.end + 1,
                                  IndexOfClose(fullResponse, m.end + 1)))

\* C30: when the first start tag of a finished stream is a DELETE tag
\* without a path, which the parser cannot open, the actions enqueued are
\* the actions of the text that follows that tag.
C30_WorkAfterMalformedTagIsEnqueued ==
    LET m == FirstMatch(fullResponse)
    IN  (streamEnded /\ m.ok /\ m.type = "DELETE" /\ m.path = "") =>
            enqueued =
                processActionTags(
                    [NewParser EXCEPT
                        !.buf = Substring(fullResponse, m.end + 1,
                                          Len(fullResponse) + 1)]).enq

\* C24: the corrective message built after attempt k failed carries the
\* command history of the queue of attempt k, the queue that executed the
\* commands of that attempt's stream, for the first attempt and for every
\* retry.
C24_PromptHasHistoryOfFailedAttempt ==
    (supPc = "generate" /\ retryCount > 0) => retryPrompt.historyOf = retryCount

C25_OneResultPerRunAppendOnly ==
    [][/\ IsPrefix(commandHistory, commandHistory')
       /\ Len(commandHistory') = Len(commandHistory) + Cardinality(procs \ procs')
       /\ \A id \in procs \ procs' :
              commandHistory'[Len(commandHistory')].actionId = id]_vars

\* Two commands have run, the first one failed, and both are recorded in
\* the order in which they ended.
C25_Witness ==
    /\ Len(commandHistory) = 2
    /\ ~commandHistory[1].success
    /\ commandHistory[1].actionId # commandHistory[2].actionId
    /\ procs = {}

\* The start-tag/closing-tag pairs of a text, read from left to right: the
\* leftmost start tag that can be opened and the first closing tag after
\* it make a pair, and the search goes on behind that closing tag.  A start
\* tag without a closing tag, and a DELETE start tag without path, end the
\* search.
RECURSIVE TagPairs(_)
TagPairs(text) ==
    LET m == FirstMatch(text)
        c == IndexOfClose(text, m.end + 1)
    IN  IF ~m.ok \/ (m.type = "DELETE" /\ m.path = "") THEN <<>>
        ELSE IF c = 0 THEN <<>>
        ELSE <<[type |-> m.type, path |-> m.path]>>
                 \o TagPairs(Substring(text, c + 2, Len(text) + 1))

(***************************************************************************)
(* C22: after every processChunk call the enqueued actions are, in order,  *)
(* one action for each start-tag/closing-tag pair of the text received so  *)
(* far, with the type and path of its start tag: an action is enqueued in  *)
(* the call whose fragment completes its closing tag, not before and not   *)
(* twice; and an enqueued action is never taken back.                      *)
(***************************************************************************)
C22_EnqueuedOncePerClosedPair ==
    /\ [](TagPairs(fullResponse) =
              [i \in 1..Len(enqueued) |->
                  [type |-> enqueued[i].type, path |-> enqueued[i].path]])
    /\ [][IsPrefix(enqueued, enqueued')]_vars

\* One action has been enqueued and the next one is open: its start tag and
\* part of its body have arrived, and it is not in the queue.
C22_Witness ==
    /\ Len(enqueued) = 1
    /\ currentFileAction.type = "CREATE"
    /\ chunkBuffer = <<"s", "x">>
    /\ ~streamEnded

(***************************************************************************)
(* C26: when the first start tag of the response opens a CREATE, EDIT or   *)
(* DELETE action and a complete start tag follows inside its body, then    *)
(* until the closing tag arrives that action stays the open one, nothing   *)
(* is enqueued and the body, nested tag included, is kept; and once the    *)
(* closing tag has arrived the first enqueued action is that action, with  *)
(* the whole body up to the closing tag, nested tag included, as content.  *)
(***************************************************************************)
C26_NestedStartTagStaysContent ==
    LET m == FirstMatch(fullResponse)
        c == IndexOfClose(fullResponse, m.end + 1)
        body == Substring(fullResponse, m.end + 1,
                          IF c = 0 THEN Len(fullResponse) + 1 ELSE c)
    IN  (/\ m.ok
         /\ m.type \in FileTypes
         /\ m.type # "DELETE" \/ m.path # ""
         /\ FirstMatch(body).ok)
          => IF c = 0
             THEN /\ currentFileAction =
                         [type |-> m.type, path |-> m.path, content |-> <<>>]
                  /\ chunkBuffer = body
                  /\ enqueued = <<>>
             ELSE /\ enqueued # <<>>
                  /\ enqueued[1] = [type |-> m.type, path |-> m.path, content |-> body]

\* A CREATE action has been enqueued whose content holds a TEXT start tag.
C26_Witness ==
    /\ enqueued # <<>>
    /\ enqueued[1].type = "CREATE"
    /\ enqueued[1].content = <<"<", "T", ">", "s", "x">>

(***************************************************************************)
(* C27 as stated: when the first start tag that can be opened has a        *)
(* closing tag after it, the first enqueued action has exactly the text    *)
(* between that start tag and the first closing tag after it as content,   *)
(* whatever its type.                                                      *)
(***************************************************************************)
C27_ContentIsExactlyTextBeforeFirstClose ==
    LET m == FirstMatch(fullResponse)
        closeAt(i) == /\ i + 1 <= Len(fullResponse)
                      /\ fullResponse[i] = "/"
                      /\ fullResponse[i + 1] = ">"
        after == {i \in 1..Len(fullResponse) : i > m.end /\ closeAt(i)}
        c == CHOOSE i \in after : \A j \in after : i <= j
    IN  (m.ok /\ (m.type # "DELETE" \/ m.path # "") /\ after # {})
          => /\ enqueued # <<>>
             /\ enqueued[1].type = m.type
             /\ enqueued[1].content = Substring(fullResponse, m.end + 1, c)

(***************************************************************************)
(* C27 amended: the body of an action ends at the first closing tag after  *)
(* its start tag.  The content of a CREATE, EDIT or DELETE action is       *)
(* exactly the text before that closing tag, the content of a TEXT action  *)
(* is that text trimmed, the content of a COMMAND action is that text      *)
(* trimmed followed by that text; and the text behind the closing tag is   *)
(* parsed as the text of a fresh parser is: outside any action.            *)
(***************************************************************************)
C27_BodyEndsAtFirstClose ==
    LET m == FirstMatch(fullResponse)
        closeAt(i) == /\ i + 1 <= Len(fullResponse)
                      /\ fullResponse[i] = "/"
                      /\ fullResponse[i + 1] = ">"
        after == {i \in 1..Len(fullResponse) : i > m.end /\ closeAt(i)}
        c == CHOOSE i \in after : \A j \in after : i <= j
        body == Substring(fullResponse, m.end + 1, c)
        rest == processActionTags(
                    [NewParser EXCEPT
                        !.buf = Substring(fullResponse, c + 2, Len(fullResponse) + 1)])
    IN  (m.ok /\ (m.type # "DELETE" \/ m.path # "") /\ after # {})
          => /\ enqueued # <<>>
             /\ enqueued[1].type = m.type
             /\ enqueued[1].content =
                    CASE m.type \in FileTypes -> body
                      [] m.type = "TEXT" -> Trim(body)
                      [] m.type = "COMMAND" -> Trim(body) \o body
             /\ Tail(enqueued) = rest.enq
             /\ currentFileAction = rest.cur
             /\ chunkBuffer = rest.buf

\* A CREATE start tag followed by two closing tags: the action ends at the
\* first one, and the second one is left outside any action.
C27_Witness ==
    /\ fullResponse = <<"<", "C", "p", ">", "s", "x", "/", ">", "/", ">">>
    /\ enqueued = <<[type |-> "CREATE", path |-> "a.txt", content |-> <<"s", "x">>]>>
    /\ currentFileAction = NoAction
    /\ chunkBuffer = <<"/", ">">>

\* C29: every CREATE, EDIT or DELETE action the parser has enqueued has a
\* non-empty path; and dispatching a file action with an empty path never
\* changes the disk, whatever the sink and the file system do.
C29_EnqueuedFileActionsHavePath ==
    \A i \in 1..Len(enqueued) :
        enqueued[i].type \in FileTypes =>
            /\ enqueued[i].path # ""
            /\ \A s \in {"none", "up", "down"}, io \in {"ok", "failed"} :
                   LET e == processFileAction(
                                projectDir,
                                [type |-> enqueued[i].type, path |-> <<>>,
                                 content |-> enqueued[i].content],
                                disk, s, io)
                   IN  e.threw /\ e.disk = disk /\ e.touched = {}

(***************************************************************************)
(* C21: in the assistant message that is re-sent, when the first action    *)
(* tag of the response is a complete CREATE, EDIT or DELETE tag, the text  *)
(* from its start tag to the first closing tag after it is replaced by one *)
(* placeholder with its type and path and the text before it is kept; when *)
(* it is a complete TEXT or COMMAND tag, the text up to and including its  *)
(* closing tag is re-sent unchanged.                                       *)
(***************************************************************************)
C21_FileTagsReplacedOthersUnchanged ==
    LET m == FirstMatch(fullResponse)
        c == IndexOfClose(fullResponse, m.end + 1)
        out == messages[1].content
    IN  (/\ messages # <<>>
         /\ m.ok
         /\ m.type # "DELETE" \/ m.path # ""
         /\ c # 0)
          => IF m.type \in FileTypes
             THEN out = SubSeq(fullResponse, 1, m.index - 1)
                          \o <<"<action_placeholder type=" \o m.type \o " path="
                                 \o (IF m.path = "" THEN "[unknown path]" ELSE m.path)
                                 \o ">">>
                          \o filterWithModifiedRegex(
                                 Substring(fullResponse, c + 2, Len(fullResponse) + 1))
             ELSE IsPrefix(SubSeq(fullResponse, 1, c + 1), out)

(***************************************************************************)
(* C36: within one queue at most one action is in flight.  One loop runs   *)
(* at a time (isProcessing is set exactly while it does); while a dispatch *)
(* is awaited the queue is not empty and at most one process runs, that of *)
(* the head action; a step that returns no dispatch result leaves the      *)
(* action in flight at the head of the queue and in flight; and a dispatch *)
(* begins only when none is in flight or the previous one returns in the   *)
(* same step.                                                              *)
(***************************************************************************)
C36_OneDispatchInFlightAtHead ==
    /\ [](/\ isProcessing <=> loopPc # "idle"
          /\ Dispatching => queue # <<>>
          /\ Cardinality(procs) <= 1
          /\ procs # {} => loopPc = "cmdRun" /\ procs = {Head(queue).id})
    /\ [][(Dispatching /\ applied' = applied /\ failures' = failures)
            => /\ loopPc' \in {loopPc, "cmdSettle"}
               /\ queue' # <<>>
               /\ Head(queue') = Head(queue)]_vars

\* A file action is in flight at the head of the queue while a second
\* action, added during the dispatch, waits behind it.
C36_Witness ==
    /\ loopPc = "dispatch"
    /\ Len(queue) = 2
    /\ Head(queue).type = "CREATE"
    /\ queue[2].type = "COMMAND"
    /\ procs = {}

\* C34: when generateProjectCode returns its result, after a successful
\* build or after the retries are exhausted, the attempts value equals the
\* number of model-stream rounds of the call.
C34_AttemptsEqualsRounds ==
    supPc \in {"collect", "done"} => Attempts = streams

\* The call returns after its third round succeeded.
C34_Witness ==
    /\ supPc = "done"
    /\ success
    /\ streams = 3
    /\ buildFails = 2

C37_QueuesOfAttemptsNeverOverlap ==
    /\ supPc \in {"lint", "build"} => outstanding[retryCount + 1] = 0
    /\ \A j, k \in DOMAIN outstanding :
           j # k => outstanding[j] = 0 \/ outstanding[k] = 0

(***************************************************************************)
(* C31: after every processChunk call the buffer is a suffix of the text   *)
(* received so far, and the text consumed before it holds every enqueued   *)
(* action from its start tag to its closing tag; a call removes characters *)
(* only from the front of the buffer extended by its fragment, and only    *)
(* when it opens an action or enqueues one.                                *)
(***************************************************************************)
C31_BufferIsUnconsumedTail ==
    /\ [](LET k == Len(fullResponse) - Len(chunkBuffer)
          IN  /\ k >= 0
              /\ chunkBuffer = SubSeq(fullResponse, k + 1, Len(fullResponse))
              /\ Len(TagPairs(SubSeq(fullResponse, 1, k))) = Len(enqueued))
    /\ [][LET text == SubSeq(fullResponse', Len(fullResponse) + 1, Len(fullResponse'))
              b == chunkBuffer \o text
              gone == Len(b) - Len(chunkBuffer')
          IN  /\ gone >= 0
              /\ chunkBuffer' = SubSeq(b, gone + 1, Len(b))
              /\ gone > 0 => \/ enqueued' # enqueued
                             \/ currentFileAction' # currentFileAction]_vars

\* A CREATE action has been enqueued and the text behind its closing tag is
\* what the buffer holds.
C31_Witness ==
    /\ fullResponse = <<"<", "C", "p", ">", "/", ">", "s", "x">>
    /\ Len(enqueued) = 1
    /\ chunkBuffer = <<"s", "x">>
    /\ currentFileAction = NoAction

(***************************************************************************)
(* C32: in a processChunk call made while a CREATE or EDIT action is open, *)
(* the preview the call publishes (streamingContent extended by the        *)
(* fragment) is a prefix of the content with which the action is enqueued: *)
(* the text from its start tag to the first closing tag of the stream.     *)
(***************************************************************************)
C32_PreviewIsPrefixOfFinalContent ==
    [][(fullResponse' # fullResponse /\ currentFileAction.type \in {"CREATE", "EDIT"})
         => LET text == SubSeq(fullResponse', Len(fullResponse) + 1, Len(fullResponse'))
                rest == chunkBuffer \o stream
                c == IndexOfClose(rest, 1)
            IN  c # 0 => IsPrefix(streamingContent \o text,
                                  currentFileAction.content \o Substring(rest, 1, c))]_vars

(***************************************************************************)
(* C40: the fragments that reach processChunk, concatenated in the order   *)
(* of the calls, are the text the model produced: the concatenation of all *)
(* deltas of a stream with content, whitespace-only deltas included.  This *)
(* is required of the chunk loop of streamResponse, which passes the       *)
(* non-empty deltas, and of the chunk loop of streamClaudeResponse.        *)
(***************************************************************************)
C40_EveryFragmentReachesParser ==
    LET produced == FullResponseOf(modelStream)
        IsNonEmpty(d) == d # <<>>
    IN  ~StreamThrows(modelStream) =>
            /\ FullResponseOf(SelectSeq(modelStream, IsNonEmpty)) = produced
            /\ FullResponseOf(streamClaudeResponse(modelStream)) = produced


(***************************************************************************)
(* C38: when the first start tag of the response is a COMMAND tag and its  *)
(* action is enqueued, the command line that executeCommand runs for the   *)
(* action is the text between the start tag and the first closing tag,     *)
(* trimmed: not that text twice, and not a part of it.                     *)
(***************************************************************************)
C38_CommandLineIsTrimmedBody ==
    LET m == FirstMatch(fullResponse)
    IN  (m.ok /\ m.type = "COMMAND" /\ enqueued # <<>> /\ enqueued[1].type = "COMMAND") =>
            executeCommand(enqueued[1].content) =
                Trim(Substring(fullResponse, m.end + 1,
                               IndexOfClose(fullResponse, m.end + 1)))


(***************************************************************************)
(* C39: in the messages of a model request, a message of the existing      *)
(* conversation has the role it is stored with, the messages of the        *)
(* session follow as user (the new prompt), assistant (a response), user   *)
(* (a retry prompt) and so on, and the last message has the role user.     *)
(***************************************************************************)
C39_MessagesKeepTheirRoles ==
    LET n == Len(existingConversation)
        total == Len(requestMessages)
    IN  requestMessages # <<>> =>
            /\ total = Len(conversations)
            /\ total > n
            /\ \A i \in 1..n : requestMessages[i].role = existingConversation[i].role
            /\ \A i \in (n + 1)..total :
                   requestMessages[i].role =
                       IF (i - n) % 2 = 1 THEN "user" ELSE "assistant"
            /\ requestMessages[total].role = "user"

(***************************************************************************)
(* C33: within one generateProjectCode call the session history only grows *)
(* at its end, by the response of each model request and by each retry     *)
(* prompt; the conversation of every model request is the existing         *)
(* conversation, the new prompt, and then for every earlier round its      *)
(* response followed by its retry prompt, in order, the retry prompt of    *)
(* the last round being the last message.                                  *)
(***************************************************************************)
C33_RetrySendsWholeTranscript ==
    /\ [](LET n == Len(existingConversation)
              k == Len(conversations) - n
          IN  conversations # <<>> =>
                  /\ k >= 1 /\ k % 2 = 1
                  /\ \A i \in 1..n :
                         conversations[i].userPrompt = existingConversation[i].content
                  /\ k <= Len(sessionConversationHistory)
                  /\ \A j \in 1..k :
                         conversations[n + j] = sessionConversationHistory[j]
                  /\ \A j \in 2..k :
                         j % 2 = 1 =>
                             conversations[n + j].userPrompt =
                                 <<"retry attempt", <<"1", "2", "3", "4", "5">>[(j - 1) \div 2]>>
                  /\ genPc = "stream" => k = Len(sessionConversationHistory))
    /\ [][genPc # "idle" =>
              /\ existingConversation' = existingConversation
              /\ IsPrefix(sessionConversationHistory, sessionConversationHistory')
              /\ Len(sessionConversationHistory') <= Len(sessionConversationHistory) + 1
              /\ (genPc = "stream" /\ genPc' = "verify") =>
                     sessionConversationHistory' =
                         Append(sessionConversationHistory,
                                [userPrompt |-> claudeResponse', isFollowUp |-> FALSE])
              /\ (genPc = "verify" /\ genPc' = "stream") =>
                     /\ Len(sessionConversationHistory') = Len(sessionConversationHistory) + 1
                     /\ Len(conversations') = Len(conversations) + 2]_vars

\* The second retry request of a follow-up generation.
C33_Witness ==
    /\ genPc = "stream"
    /\ Len(existingConversation) = 2
    /\ Len(sessionConversationHistory) = 5
    /\ Len(conversations) = 7
    /\ conversations[7].userPrompt = <<"retry attempt", "2">>

====
